---- MODULE Spec2Model ----
(***************************************************************************)
(* A model of the jira-utils report scripts: the S-curve distribution and  *)
(* velocity arithmetic of generate-sprint-report.js, the point normalizers *)
(* of the fetch loops, the changelog resolvers and the aggregators.        *)
(*                                                                         *)
(* Numbers.  Story points and daily targets are JavaScript doubles.  The   *)
(* model keeps them exact: a value with two decimals is an integer number  *)
(* of hundredths, a velocity with one decimal an integer number of tenths, *)
(* a share of a profile a fraction num/den.  NaN is a value of its own     *)
(* that every arithmetic operation propagates, as IEEE-754 does.           *)
(* Math.round is round-half-up on the exact value.                         *)
(***************************************************************************)
EXTENDS Integers, Sequences, FiniteSets, TLC

VARIABLES
    pc,            \* position of the run that is modelled
    totalPoints,   \* distributeSCurve: argument, in hundredths of a point
    workingDays,   \* distributeSCurve: argument
    profile,       \* distributeSCurve: the profile it used (shares)
    distribution,  \* distributeSCurve: the returned array (hundredths or NaN)
    data,          \* readSprintData: the `data` object's velocity fields
    issue,         \* the issue record a changelog resolver is given
    result,        \* the resolver that ran and what it returned
    tracker,       \* the issues the tracker holds for the sprint
    refs,          \* issue keys a search returned, details still to fetch
    fetched,       \* the issue records a fetch function has built so far
    report,        \* what the fetch / grouping function returned
    config,        \* process.env: the account email and the API token
    failing,       \* the requests the tracker fails: the search, issue keys
    run,           \* the process: requests sent, file written, exit code
    fields,        \* what the tracker answers to the field-list request
    argv,          \* process.argv.slice(2): the command-line arguments
    clock          \* the process's clock: today's date and its time zone

vars == <<pc, totalPoints, workingDays, profile, distribution, data,
          issue, result, tracker, refs, fetched, report, config, failing, run,
          fields, argv, clock>>

\* The variables of each script family; a run of one family leaves the
\* others at their idle values.
curveVars == <<totalPoints, workingDays, profile, distribution>>
velVars == <<data>>
histVars == <<issue, result>>
reportVars == <<tracker, refs, fetched, report>>
envVars == <<config, failing, run, fields, argv, clock>>

----------------------------------------------------------------------------
(* Numbers *)

NaN == [nan |-> TRUE, v |-> 0]
Num(x) == [nan |-> FALSE, v |-> x]
IsNum(a) == ~a.nan
Add(a, b) == IF a.nan \/ b.nan THEN NaN ELSE Num(a.v + b.v)

\* A fraction num/den with den > 0, or NaN (0/0).
Frac(n, d) == [nan |-> FALSE, num |-> n, den |-> d]
FracNaN == [nan |-> TRUE, num |-> 0, den |-> 1]

\* Math.round of the exact value a/b, b > 0: the nearest integer, ties upwards.
MathRound(a, b) == (2 * a + b) \div (2 * b)

Abs(x) == IF x < 0 THEN -x ELSE x

RECURSIVE SumNum(_)
SumNum(s) == IF s = <<>> THEN Num(0) ELSE Add(Head(s), SumNum(Tail(s)))

RECURSIVE SumInt(_)
SumInt(s) == IF s = <<>> THEN 0 ELSE Head(s) + SumInt(Tail(s))

----------------------------------------------------------------------------
(* generate-sprint-report.js: the S-curve *)

\* Bounds of the inputs of distributeSCurve.
MaxDays == 12
MaxCents == 40
MaxWhole == 100

WorkingDaysInputs == 0..MaxDays
TotalPointsInputs == (0..MaxCents) \cup {100 * k : k \in 0..MaxWhole}

\* The precomputed profiles, in percent.
sCurveProfile ==
    [n \in 5..10 |->
        CASE n = 10 -> <<5, 7, 10, 12, 13, 13, 12, 10, 7, 5>>
          [] n = 9 -> <<5, 7, 11, 13, 14, 14, 13, 11, 7>>
          [] n = 8 -> <<6, 8, 12, 14, 14, 14, 12, 8>>
          [] n = 7 -> <<7, 10, 13, 15, 15, 13, 10>>
          [] n = 6 -> <<8, 12, 15, 15, 12, 8>>
          [] n = 5 -> <<10, 15, 20, 15, 10>>]

\* smoothT of day i (0-based) of `days`: t = i / (days - 1), t*t*(3 - 2*t)
\* = i*i*(3*(days-1) - 2*i) / (days-1)^3; 0/0 is NaN.
SmoothT(i, days) ==
    LET n == days - 1
    IN  IF n = 0 THEN FracNaN
        ELSE Frac(i * i * (3 * n - 2 * i), n * n * n)

\* The sum of the smoothT values (reduce from 0): NaN if one of them is.
\* The values of one profile share the denominator (days-1)^3.
RECURSIVE SmoothSum(_, _)
SmoothSum(k, days) ==
    IF k = 0 THEN Frac(0, 1)
    ELSE LET rest == SmoothSum(k - 1, days)
             x == SmoothT(k - 1, days)
         IN  IF rest.nan \/ x.nan THEN FracNaN
             ELSE Frac(rest.num + x.num, x.den)

\* v / sum for two fractions of the same denominator; 0/0 and anything
\* with NaN is NaN.  (A profile of days >= 2 has a positive sum.)
FracDiv(v, s) ==
    IF v.nan \/ s.nan \/ s.num = 0 THEN FracNaN
    ELSE Frac(v.num, s.num)

generateSCurveProfile(days) ==
    LET sum == SmoothSum(days, days)
    IN  [i \in 1..days |-> FracDiv(SmoothT(i - 1, days), sum)]

ProfileFor(days) ==
    IF days \in DOMAIN sCurveProfile
    THEN [i \in 1..days |-> Frac(sCurveProfile[days][i], 100)]
    ELSE generateSCurveProfile(days)

\* Math.round(totalPoints * percentage * 100) / 100, in hundredths.
RoundShare(total, share) ==
    IF share.nan THEN NaN ELSE Num(MathRound(total * share.num, share.den))

\* The rounding residual that is added to the middle day.
NeedsAdjust(diff) == Abs(diff) > 1

\* distribution[idx] += diff on a JavaScript array (idx 0-based): an index
\* past the end creates the element as undefined + diff = NaN.
AddAt(dist, idx, diff) ==
    IF idx + 1 \in DOMAIN dist
    THEN [dist EXCEPT ![idx + 1] = Add(@, diff)]
    ELSE IF idx = Len(dist) THEN Append(dist, NaN) ELSE dist

distributeSCurve(total, days) ==
    LET prof == ProfileFor(days)
        dist == [i \in 1..Len(prof) |-> RoundShare(total, prof[i])]
        sum == SumNum(dist)
        \* Math.round((totalPoints - sum) * 100) / 100
        diff == IF sum.nan THEN NaN ELSE Num(total - sum.v)
    IN  IF IsNum(diff) /\ NeedsAdjust(diff.v)
        THEN AddAt(dist, days \div 2, diff)
        ELSE dist

CurveIdle ==
    /\ totalPoints = 0
    /\ workingDays = 0
    /\ profile = <<>>
    /\ distribution = <<>>

VelIdle == data = [totalCommitted |-> 0]

HistIdle == issue = [key |-> "none"] /\ result = [fn |-> "none"]
ReportIdle ==
    /\ tracker = <<>>
    /\ refs = <<>>
    /\ fetched = <<>>
    /\ report = [script |-> "none"]

\* Both credentials set, a tracker that answers every request, and a
\* process that has sent nothing, written nothing and not exited.
EnvIdle ==
    /\ config = [JIRA_EMAIL |-> TRUE, JIRA_API_TOKEN |-> TRUE]
    /\ failing = [search |-> FALSE, details |-> {}]
    /\ run = [script |-> "none", requests |-> 0, written |-> FALSE,
              exited |-> FALSE, exitCode |-> 0]
    /\ fields = [ok |-> TRUE, list |-> <<>>]
    /\ argv = <<>>
    /\ clock = [today |-> 0, tz |-> "UTC"]

InitCurve ==
    /\ pc = "curve"
    /\ totalPoints \in TotalPointsInputs
    /\ workingDays \in WorkingDaysInputs
    /\ profile = <<>>
    /\ distribution = <<>>
    /\ VelIdle /\ HistIdle /\ ReportIdle /\ EnvIdle

DistributeSCurve ==
    /\ pc = "curve"
    /\ profile' = ProfileFor(workingDays)
    /\ distribution' = distributeSCurve(totalPoints, workingDays)
    /\ pc' = "curve_done"
    /\ UNCHANGED <<envVars, totalPoints, workingDays, velVars, histVars,
                   reportVars>>

NextCurve == DistributeSCurve

SpecCurve == InitCurve /\ [][NextCurve]_vars

----------------------------------------------------------------------------
(* generate-sprint-report.js: readSprintData, the velocity metrics *)

\* Bounds of the sheet totals readSprintData works on.
MaxCommitted == 12
MaxDelivered == 12
MaxSprintDays == 10

CommittedInputs == (0..MaxCommitted) \cup {100}
DeliveredInputs == (0..MaxDelivered) \cup {40}

\* Math.round((totalCommitted / totalWorkingDays) * 10) / 10, in tenths.
targetVelocityOf(committed, total) ==
    IF total > 0 THEN MathRound(10 * committed, total) ELSE 0

\* A velocity cut to one decimal instead of rounded (Math.floor).
currentVelocityTruncated(delivered, elapsed) ==
    IF elapsed > 0 THEN (10 * delivered) \div elapsed ELSE 0

\* Math.round((totalDelivered / workingDaysElapsed) * 10) / 10, in tenths.
currentVelocityOf(delivered, elapsed) ==
    IF elapsed > 0 THEN MathRound(10 * delivered, elapsed) ELSE 0

\* Math.round(data.currentVelocity * totalWorkingDays), velocity in tenths.
predictedTotalOf(velocity, total) == MathRound(velocity * total, 10)

\* The uplift computed from the committed points instead of the remaining.
velocityUpliftFromCommitted(committed, delivered, total, elapsed, velocity) ==
    LET remainingDays == total - elapsed
    IN  IF remainingDays > 0 /\ velocity > 0
        THEN MathRound(1000 * committed - 100 * remainingDays * velocity,
                       remainingDays * velocity)
        ELSE 0

\* Math.round(((requiredVelocity / currentVelocity) - 1) * 100) or 0.
velocityUpliftNeededOf(committed, delivered, total, elapsed, velocity) ==
    LET remainingDays == total - elapsed
        remainingPoints == committed - delivered
    IN  IF remainingDays > 0 /\ velocity > 0
        THEN MathRound(1000 * remainingPoints - 100 * remainingDays * velocity,
                       remainingDays * velocity)
        ELSE 0

\* The values the double-precision evaluation can give: when the exact
\* quotient lies halfway between two integers the computed double may fall
\* on either side of the tie before Math.round.
velocityUpliftOutcomes(committed, delivered, total, elapsed, velocity) ==
    LET remainingDays == total - elapsed
        remainingPoints == committed - delivered
        rounded == velocityUpliftNeededOf(committed, delivered, total,
                                          elapsed, velocity)
        tie == /\ remainingDays > 0 /\ velocity > 0
               /\ 2 * (1000 * remainingPoints - 100 * remainingDays * velocity)
                     = (2 * rounded - 1) * remainingDays * velocity
    IN  IF tie THEN {rounded - 1, rounded} ELSE {rounded}

InitVel ==
    /\ pc = "sheet"
    /\ \E c \in CommittedInputs, d \in DeliveredInputs,
          t \in 0..MaxSprintDays :
          \E e \in 0..t :
             data = [totalCommitted |-> c, totalDelivered |-> d,
                     totalWorkingDays |-> t, workingDaysElapsed |-> e,
                     targetVelocity |-> 0, currentVelocity |-> 0,
                     predictedTotal |-> 0, velocityUpliftNeeded |-> 0]
    /\ CurveIdle /\ HistIdle /\ ReportIdle /\ EnvIdle

readSprintData ==
    /\ pc = "sheet"
    /\ LET v == currentVelocityOf(data.totalDelivered, data.workingDaysElapsed)
       IN  \E uplift \in velocityUpliftOutcomes(data.totalCommitted,
                              data.totalDelivered, data.totalWorkingDays,
                              data.workingDaysElapsed, v) :
             data' = [data EXCEPT
                !.targetVelocity =
                    targetVelocityOf(data.totalCommitted, data.totalWorkingDays),
                !.currentVelocity = v,
                !.predictedTotal = predictedTotalOf(v, data.totalWorkingDays),
                !.velocityUpliftNeeded = uplift]
    /\ pc' = "sheet_done"
    /\ UNCHANGED <<envVars, curveVars, histVars, reportVars>>

NextVel == readSprintData

SpecVel == InitVel /\ [][NextVel]_vars

----------------------------------------------------------------------------
(* Strings, optional values and timestamps *)

\* String.prototype.toUpperCase / toLowerCase on the names that occur.
toUpperCase(s) ==
    CASE s \in {"Closed", "CLOSED", "closed"} -> "CLOSED"
      [] s \in {"Done", "DONE"} -> "DONE"
      [] s \in {"Completed", "COMPLETED"} -> "COMPLETED"
      [] s \in {"Ready for release", "READY FOR RELEASE"} -> "READY FOR RELEASE"
      [] s \in {"In QA", "IN QA"} -> "IN QA"
      [] s \in {"In Dev", "IN DEV", "in dev"} -> "IN DEV"
      [] s \in {"In Review", "IN REVIEW"} -> "IN REVIEW"
      [] s \in {"Ready for Review", "READY FOR REVIEW"} -> "READY FOR REVIEW"
      [] s \in {"Blocked", "BLOCKED"} -> "BLOCKED"
      [] s \in {"Unknown"} -> "UNKNOWN"
      [] s \in {"NH Sprint 30"} -> "NH SPRINT 30"
      [] s \in {"NH Sprint 31"} -> "NH SPRINT 31"
      [] s \in {"NH Sprint 30, NH Sprint 31"} -> "NH SPRINT 30, NH SPRINT 31"
      [] s \in {"Story Points", "story points"} -> "STORY POINTS"
      [] s \in {"Story point estimate"} -> "STORY POINT ESTIMATE"
      [] s \in {"Summary"} -> "SUMMARY"
      [] s \in {"Login fails"} -> "LOGIN FAILS"
      [] s \in {"Login fails on retry"} -> "LOGIN FAILS ON RETRY"
      [] s \in {"Test example: login"} -> "TEST EXAMPLE: LOGIN"
      [] OTHER -> s

toLowerCase(s) ==
    CASE toUpperCase(s) = "CLOSED" -> "closed"
      [] toUpperCase(s) = "DONE" -> "done"
      [] toUpperCase(s) = "COMPLETED" -> "completed"
      [] toUpperCase(s) = "READY FOR RELEASE" -> "ready for release"
      [] toUpperCase(s) = "IN QA" -> "in qa"
      [] toUpperCase(s) = "IN DEV" -> "in dev"
      [] toUpperCase(s) = "IN REVIEW" -> "in review"
      [] toUpperCase(s) = "READY FOR REVIEW" -> "ready for review"
      [] toUpperCase(s) = "BLOCKED" -> "blocked"
      [] toUpperCase(s) = "UNKNOWN" -> "unknown"
      [] toUpperCase(s) = "NH SPRINT 30" -> "nh sprint 30"
      [] toUpperCase(s) = "NH SPRINT 31" -> "nh sprint 31"
      [] toUpperCase(s) = "NH SPRINT 30, NH SPRINT 31"
            -> "nh sprint 30, nh sprint 31"
      [] toUpperCase(s) = "STORY POINTS" -> "story points"
      [] toUpperCase(s) = "STORY POINT ESTIMATE" -> "story point estimate"
      [] toUpperCase(s) = "SUMMARY" -> "summary"
      [] OTHER -> s

\* String.prototype.includes on the strings that occur.
includes(s, part) ==
    \/ s = part
    \/ s = "NH Sprint 30, NH Sprint 31" /\ part \in {"NH Sprint 30", "NH Sprint 31"}
    \/ part = "story point" /\ s \in {"story points", "story point estimate"}
    \/ part = "TEST EXAMPLE" /\ s = "TEST EXAMPLE: LOGIN"
    \/ part = "Login fails" /\ s = "Login fails on retry"

\* null / undefined, and a value that is there.
None == [some |-> FALSE]
Some(x) == [some |-> TRUE, v |-> x]

\* An ISO timestamp "<date>T<time>": split('T')[0] is its date.  Dates are
\* days counted from the first day of the scenario.
Timestamp(d, h) == [date |-> d, time |-> h]
DateOf(ts) == ts.date
Before(a, b) == a.date < b.date \/ (a.date = b.date /\ a.time < b.time)

Min(S) == CHOOSE x \in S : \A y \in S : x <= y
Max(S) == CHOOSE x \in S : \A y \in S : x >= y

----------------------------------------------------------------------------
(* generate-sprint-report.js: generateReport, the overrun projection *)

MaxRemaining == 12
MaxDaysRemaining == 6

\* projectData as readProjectData returns it: the remaining points of the
\* plan sheet and the working days counted up to the last sprint's end.
ProjectInputs ==
    [totalRemaining : 0..MaxRemaining,
     workingDaysRemaining : 0..MaxDaysRemaining]

\* The days needed alone, with the days remaining not taken off.
daysNeededOutcomes(velocity, totalRemaining, workingDaysRemaining) ==
    {MathRound(10 * totalRemaining, velocity)}

\* Math.round(totalRemaining / currentVelocity - workingDaysRemaining) for
\* a velocity in tenths.  When the exact value lies halfway between two
\* integers the double quotient may fall on either side of the tie.
daysOverrunOutcomes(velocity, totalRemaining, workingDaysRemaining) ==
    LET num == 10 * totalRemaining - workingDaysRemaining * velocity
        rounded == MathRound(num, velocity)
    IN  IF 2 * num = (2 * rounded - 1) * velocity
        THEN {rounded - 1, rounded}
        ELSE {rounded}

\* The projection that does not look at the velocity first and settles on
\* zero days when nothing can be divided.
overrunUnguarded(velocity, pd) ==
    {[pd EXCEPT !.daysOverrun = Some(0), !.isOverrun = Some(FALSE)]}

\* The block of generateReport that fills daysOverrun and isOverrun: both
\* stay undefined unless the sprint's current velocity is positive.
overrunProjection(velocity, pd) ==
    IF velocity > 0
    THEN {[pd EXCEPT !.daysOverrun = Some(d), !.isOverrun = Some(d > 0)] :
            d \in daysOverrunOutcomes(velocity, pd.totalRemaining,
                                      pd.workingDaysRemaining)}
    ELSE {pd}

\* drawProjectMetrics: the overrun line of the PDF, if one is drawn.
overrunText(pd) ==
    IF pd.daysOverrun.some
    THEN IF pd.isOverrun.some /\ pd.isOverrun.v
         THEN Some([text |-> "OVERRUN", days |-> pd.daysOverrun.v])
         ELSE IF pd.daysOverrun.v < 0
              THEN Some([text |-> "UNDERRUN", days |-> Abs(pd.daysOverrun.v)])
              ELSE Some([text |-> "On track", days |-> 0])
    ELSE None

\* A sprint of full length and commitment; what was delivered and how many
\* days have elapsed vary.
InitProj ==
    /\ InitVel
    /\ data.totalCommitted = MaxCommitted
    /\ data.totalWorkingDays = MaxSprintDays

generateReport ==
    /\ pc = "sheet_done"
    /\ \E input \in ProjectInputs :
         \E pd \in overrunProjection(data.currentVelocity,
                      [totalRemaining |-> input.totalRemaining,
                       workingDaysRemaining |-> input.workingDaysRemaining,
                       daysOverrun |-> None, isOverrun |-> None]) :
            report' = [script |-> "generateReport", projectData |-> pd,
                       overrunText |-> overrunText(pd)]
    /\ pc' = "pdf_done"
    /\ UNCHANGED <<envVars, data, tracker, refs, fetched, curveVars, histVars>>

NextProj == readSprintData \/ generateReport

SpecProj == InitProj /\ [][NextProj]_vars

----------------------------------------------------------------------------
(* The changelog resolvers *)

\* Longest changelog of an issue.
MaxHist == 2

Dates == {0, 1, 2}
Timestamps == {Timestamp(d, h) : d \in Dates, h \in {0, 1}}

\* The calendar of the scenario: the run happens on day 2 and the date range
\* of get-jira-completed-points is day 1 to day 2; day 0 lies before both.
Scenario == [today |-> 2, startDate |-> 1, endDate |-> 2]

\* Status ids, as the tracker puts them in a change item's `to`.
StatusId(name) ==
    CASE toUpperCase(name) = "CLOSED" -> "6"
      [] toUpperCase(name) = "IN QA" -> "10100"
      [] OTHER -> "10000"

StatusItem(name) ==
    [field |-> "status", fieldId |-> "status", toString |-> name,
     to |-> StatusId(name)]
\* A status item whose toString is null.
StatusItemNoName ==
    [field |-> "status", fieldId |-> "status", toString |-> "", to |-> "6"]
FieldItem(f, id, name) ==
    [field |-> f, fieldId |-> id, toString |-> name, to |-> "1"]

\* The change items of one history entry.
ItemLists ==
    { <<StatusItem("Closed")>>,
      <<StatusItem("CLOSED")>>,
      <<StatusItem("In QA")>>,
      <<StatusItemNoName>>,
      <<FieldItem("resolution", "resolution", "Done"), StatusItem("Closed")>>,
      <<FieldItem("resolution", "resolution", "Closed")>>,
      <<FieldItem("Sprint", "customfield_11150", "NH Sprint 31")>>,
      <<FieldItem("Sprint", "customfield_11150", "NH Sprint 30, NH Sprint 31")>>,
      <<FieldItem("Sprint", "customfield_11150", "NH Sprint 30")>> }

Histories == [created : Timestamps, items : ItemLists]

\* The changelog is chronological: entries are in the order they occurred.
Chronological(hs) ==
    \A i \in 1..(Len(hs) - 1) : Before(hs[i].created, hs[i + 1].created)

RECURSIVE ChronologicalSeqs(_)
ChronologicalSeqs(n) ==
    IF n = 0 THEN {<<>>}
    ELSE LET shorter == ChronologicalSeqs(n - 1)
             longest == {hs \in shorter : Len(hs) = n - 1}
         IN  shorter \cup
             {e \in {Append(hs, h) : hs \in longest, h \in Histories} :
                 Chronological(e)}

Changelogs ==
    {[present |-> FALSE, histories |-> <<>>]}
    \cup {[present |-> TRUE, histories |-> hs] : hs \in ChronologicalSeqs(MaxHist)}

CurrentStatuses == {"Closed", "CLOSED", "In QA"}

IssueInputs ==
    [changelog : Changelogs,
     status : CurrentStatuses,
     updated : {None, Some(Timestamp(2, 1))},
     created : {Timestamp(0, 0)}]

\* get-jira-completed-points.js, generate-sprint-report.js, part_001
COMPLETED_STATUSES == {"READY FOR RELEASE", "CLOSED"}
QA_STATUS == "In QA"
\* getCompletionDate's own list
completedStatuses == {"READY FOR RELEASE", "CLOSED", "DONE", "COMPLETED"}
SPRINT_NAME == "NH Sprint 31"
SPRINT_FIELD == "customfield_11150"

\* A match on the new value alone, whatever field changed.
AnyFieldChangedTo(item, targetStatuses) ==
    /\ item.toString # ""
    /\ \E status \in targetStatuses :
          toUpperCase(item.toString) = toUpperCase(status)

\* item.field === 'status' && item.toString && targetStatuses.some(status =>
\*   item.toString.toUpperCase() === status.toUpperCase())
StatusChangedTo(item, targetStatuses) ==
    /\ item.field = "status"
    /\ item.toString # ""
    /\ \E status \in targetStatuses :
          toUpperCase(item.toString) = toUpperCase(status)

HasChangelog(iss) == iss.changelog.present

\* A forward loop that returns at its first hit visits the least index.
FirstHit(idx) == Min(idx)
\* The loop of getStatusChangeDate: for (const history of histories).
StatusChangeScan(idx) == FirstHit(idx)
\* A loop from the last entry down returns at the greatest index.
LastHit(idx) == Max(idx)
\* The loop of getCompletionDate: for (i = length - 1; i >= 0; i--).
CompletionScan(idx) == LastHit(idx)

getStatusChangeDate(iss, targetStatuses, startDate, endDate) ==
    IF ~HasChangelog(iss) THEN None
    ELSE LET hs == iss.changelog.histories
             idx == {i \in DOMAIN hs :
                        /\ DateOf(hs[i].created) >= startDate
                        /\ DateOf(hs[i].created) <= endDate
                        /\ \E k \in DOMAIN hs[i].items :
                              StatusChangedTo(hs[i].items[k], targetStatuses)}
         IN  IF idx = {} THEN None
             ELSE Some(DateOf(hs[StatusChangeScan(idx)].created))

\* Returns the actual status name of the first matching item.
changedToStatusToday(iss, targetStatuses, today) ==
    IF ~HasChangelog(iss) THEN None
    ELSE LET hs == iss.changelog.histories
             hits(i) == {k \in DOMAIN hs[i].items :
                            StatusChangedTo(hs[i].items[k], targetStatuses)}
             idx == {i \in DOMAIN hs :
                        DateOf(hs[i].created) = today /\ hits(i) # {}}
         IN  IF idx = {} THEN None
             ELSE LET i == FirstHit(idx)
                  IN  Some(hs[i].items[FirstHit(hits(i))].toString)

\* STATUS_CATEGORIES['Completed'].includes(item.toString) || some(s =>
\*   s.toLowerCase() === item.toString?.toLowerCase())
wasCompletedToday(changelog, today) ==
    IF ~changelog.present THEN FALSE
    ELSE \E i \in DOMAIN changelog.histories :
            /\ DateOf(changelog.histories[i].created) = today
            /\ \E k \in DOMAIN changelog.histories[i].items :
                  LET item == changelog.histories[i].items[k]
                  IN  /\ item.field = "status"
                      /\ \/ item.toString \in COMPLETED_STATUSES
                         \/ /\ item.toString # ""
                            /\ \E s \in COMPLETED_STATUSES :
                                  toLowerCase(s) = toLowerCase(item.toString)

\* completedStatuses.some(s => s === item.toString?.toUpperCase() ||
\*   s === item.to)
CompletedItem(item) ==
    /\ item.field = "status"
    /\ \E s \in completedStatuses :
          \/ (item.toString # "" /\ s = toUpperCase(item.toString))
          \/ s = item.to

\* issue.fields.updated?.split('T')[0] || null
UpdatedDate(iss) ==
    IF iss.updated.some THEN Some(DateOf(iss.updated.v)) ELSE None

getCompletionDate(iss) ==
    IF ~HasChangelog(iss) THEN None
    ELSE LET hs == iss.changelog.histories
             idx == {i \in DOMAIN hs :
                        \E k \in DOMAIN hs[i].items : CompletedItem(hs[i].items[k])}
         IN  IF idx # {} THEN Some(DateOf(hs[CompletionScan(idx)].created))
             ELSE IF toUpperCase(iss.status) \in completedStatuses
                  THEN UpdatedDate(iss)
                  ELSE None

\* Returns history.created (the whole timestamp) of the first entry that
\* adds the sprint, else createdDate.
analyzeSprintAddition(changelog, sprintFieldId, sprintName, createdDate) ==
    IF ~changelog.present THEN createdDate
    ELSE LET hs == changelog.histories
             idx == {i \in DOMAIN hs :
                        \E k \in DOMAIN hs[i].items :
                           /\ \/ hs[i].items[k].field = "Sprint"
                              \/ hs[i].items[k].fieldId = sprintFieldId
                           /\ includes(hs[i].items[k].toString, sprintName)}
         IN  IF idx = {} THEN createdDate ELSE hs[FirstHit(idx)].created

InitHist ==
    /\ pc = "issue"
    /\ issue \in IssueInputs
    /\ result = [fn |-> "none"]
    /\ CurveIdle /\ VelIdle /\ ReportIdle /\ EnvIdle

GetStatusChangeDate ==
    /\ pc = "issue"
    /\ result' = [fn |-> "getStatusChangeDate",
                  value |-> getStatusChangeDate(issue, COMPLETED_STATUSES,
                                Scenario.startDate, Scenario.endDate)]
    /\ pc' = "resolved"
    /\ UNCHANGED <<envVars, issue, curveVars, velVars, reportVars>>

ChangedToStatusToday ==
    /\ pc = "issue"
    /\ \E statusList \in {COMPLETED_STATUSES, {QA_STATUS}} :
          result' = [fn |-> "changedToStatusToday", targets |-> statusList,
                     value |-> changedToStatusToday(issue, statusList,
                                                    Scenario.today)]
    /\ pc' = "resolved"
    /\ UNCHANGED <<envVars, issue, curveVars, velVars, reportVars>>

WasCompletedToday ==
    /\ pc = "issue"
    /\ result' = [fn |-> "wasCompletedToday",
                  value |-> wasCompletedToday(issue.changelog, Scenario.today)]
    /\ pc' = "resolved"
    /\ UNCHANGED <<envVars, issue, curveVars, velVars, reportVars>>

GetCompletionDate ==
    /\ pc = "issue"
    /\ result' = [fn |-> "getCompletionDate",
                  value |-> getCompletionDate(issue)]
    /\ pc' = "resolved"
    /\ UNCHANGED <<envVars, issue, curveVars, velVars, reportVars>>

AnalyzeSprintAddition ==
    /\ pc = "issue"
    /\ result' = [fn |-> "analyzeSprintAddition",
                  value |-> analyzeSprintAddition(issue.changelog, SPRINT_FIELD,
                                SPRINT_NAME, issue.created)]
    /\ pc' = "resolved"
    /\ UNCHANGED <<envVars, issue, curveVars, velVars, reportVars>>

NextHist ==
    \/ GetStatusChangeDate
    \/ ChangedToStatusToday
    \/ WasCompletedToday
    \/ GetCompletionDate
    \/ AnalyzeSprintAddition

SpecHist == InitHist /\ [][NextHist]_vars

----------------------------------------------------------------------------
(* Story-point normalisation in the fetch functions *)

\* Bounds of the tracker's content.
MaxIssues == 2
MaxPoints == 2

IssueTypes == {"Story", "Bug", "Epic", "Task"}
\* The story-points field of an issue: absent (null), or a number.
StoredPoints == {None} \cup {Some(n) : n \in 0..MaxPoints}
SprintStatuses == {"In QA", "CLOSED"}
TrackerIssues ==
    [issuetype : IssueTypes, storyPoints : StoredPoints, status : SprintStatuses]
Trackers == UNION {[1..n -> TrackerIssues] : n \in 0..MaxIssues}

\* JavaScript's `value || fallback` on a numeric field that may be absent.
OrElse(value, fallback) ==
    IF value.some /\ value.v # 0 THEN value.v ELSE fallback

\* A JQL search: the keys (positions in the tracker) of the issues that
\* satisfy the query (`matching`), in the tracker's order.
Search(tr, matching) ==
    SelectSeq([i \in DOMAIN tr |-> i], LAMBDA i : i \in matching)

\* JQL compares status names without regard to case.
StatusIn(raw, statuses) ==
    \E st \in statuses : toUpperCase(raw.status) = toUpperCase(st)

SumPoints(recs) == SumInt([i \in DOMAIN recs |-> recs[i].storyPoints])

\* Array.prototype.sort with a consistent comparator on an integer key: a
\* stable sort, ascending in the key sortKey[i] of recs[i].
StableSort(recs, sortKey) ==
    LET n == Len(recs)
        rank(i) ==
            1 + Cardinality({j \in 1..n :
                    \/ sortKey[j] < sortKey[i]
                    \/ (sortKey[j] = sortKey[i] /\ j < i)})
    IN  [r \in 1..n |-> recs[CHOOSE i \in 1..n : rank(i) = r]]

\* Every order of the records.
Orders(recs) ==
    {[i \in DOMAIN recs |-> recs[p[i]]] : p \in Permutations(DOMAIN recs)}

\* A condition that defaults points whenever they are at most 2.
DefaultsUpToTwo(issueType, storyPoints) ==
    (issueType = "Story" \/ issueType = "Bug") /\ storyPoints <= 2

\* (issueType === 'Story' || issueType === 'Bug') && storyPoints === 0
DefaultsToTwo(issueType, storyPoints) ==
    (issueType = "Story" \/ issueType = "Bug") /\ storyPoints = 0

\* breakdown[type] = {count, points} for the types that occur.
TypeBreakdown(recs) ==
    [t \in {recs[i].issueType : i \in DOMAIN recs} |->
        [count |-> Len(SelectSeq(recs, LAMBDA r : r.issueType = t)),
         points |-> SumPoints(SelectSeq(recs, LAMBDA r : r.issueType = t))]]

\* generate-sprint-estimates.js, getSprintEstimates: the query has no type
\* filter; the loop keeps Epic, Story and Bug.  The detail request of the
\* keys in `failed` throws: the catch logs a warning and the loop goes on.
getSprintEstimates(tr, failed) ==
    LET issueData == Search(tr, DOMAIN tr)
        counted ==
            SelectSeq(issueData,
                      LAMBDA k : /\ k \notin failed
                                 /\ tr[k].issuetype \in {"Epic", "Story", "Bug"})
        Record(k) ==
            LET storyPoints == OrElse(tr[k].storyPoints, 0)
                defaulted == DefaultsToTwo(tr[k].issuetype, storyPoints)
            IN  [key |-> k,
                 issueType |-> tr[k].issuetype,
                 status |-> tr[k].status,
                 storyPoints |-> IF defaulted THEN 2 ELSE storyPoints,
                 defaulted |-> defaulted]
        issues == [i \in DOMAIN counted |-> Record(counted[i])]
    IN  IF Len(issueData) = 0
        THEN [script |-> "getSprintEstimates",
              totalStoryPoints |-> 0,
              issueCount |-> 0,
              breakdown |-> [stories |-> [points |-> 0, count |-> 0],
                             bugs |-> [points |-> 0, count |-> 0]],
              issues |-> <<>>]
        ELSE [script |-> "getSprintEstimates",
              totalStoryPoints |-> SumPoints(issues),
              issueCount |-> Len(issueData),
              issuesWithPoints |->
                  Len(SelectSeq(issues,
                                LAMBDA r : ~r.defaulted /\ r.storyPoints > 0)),
              issuesWithoutPoints |->
                  Len(SelectSeq(issues,
                                LAMBDA r : r.defaulted \/ r.storyPoints <= 0)),
              breakdown |-> TypeBreakdown(issues),
              issues |-> issues]

\* generate-issues-currently-in-qa.js, fetchIssuesInQA.
\* An issue whose detail request fails (`failed`) is skipped with a warning.
fetchIssuesInQA(tr, failed) ==
    LET issueRefs ==
            SelectSeq(Search(tr, {k \in DOMAIN tr :
                                    /\ StatusIn(tr[k], {QA_STATUS})
                                    /\ tr[k].issuetype \in {"Story", "Bug"}}),
                      LAMBDA k : k \notin failed)
        Record(k) ==
            LET storyPoints == OrElse(tr[k].storyPoints, 0)
            IN  [key |-> k,
                 issueType |-> tr[k].issuetype,
                 storyPoints |->
                     IF DefaultsToTwo(tr[k].issuetype, storyPoints)
                     THEN 2 ELSE storyPoints]
        issues == [i \in DOMAIN issueRefs |-> Record(issueRefs[i])]
    IN  [script |-> "fetchIssuesInQA",
         issues |-> StableSort(issues,
                               [i \in DOMAIN issues |-> 0 - issues[i].storyPoints]),
         totalIssues |-> Len(issues),
         totalPoints |-> SumPoints(issues),
         breakdown |-> TypeBreakdown(issues)]

\* The dates getStatusChangeDate can give fetchCompletedStoryPoints for an
\* issue: null, or a date of the requested range.
StatusChangeDates ==
    {None} \cup {Some(d) : d \in Scenario.startDate..Scenario.endDate}

\* results.sort((a, b) => both dated ? a.date.localeCompare(b.date) : 0).
\* The comparator is consistent when no date is missing or all the dates
\* present are equal; otherwise the order is implementation-defined.
SortByStatusChangedDate(results) ==
    LET dated == {i \in DOMAIN results : results[i].statusChangedDate.some}
        dates == {results[i].statusChangedDate.v : i \in dated}
    IN  IF dated = DOMAIN results
        THEN {StableSort(results,
                         [i \in DOMAIN results |->
                             results[i].statusChangedDate.v])}
        ELSE IF Cardinality(dates) <= 1 THEN {results}
        ELSE Orders(results)

\* get-jira-completed-points.js, fetchCompletedStoryPoints.  `selected` are
\* the keys the search returned, `dateOf` what getStatusChangeDate returns
\* for each of them; the result is the set of objects it can return.  The
\* detail request of the keys in `failed` throws: the catch logs the error
\* and increments issuesWithoutPoints.
fetchCompletedStoryPoints(tr, selected, dateOf, failed) ==
    LET answered == SelectSeq(selected, LAMBDA k : k \notin failed)
        Record(k) ==
            LET stored == tr[k].storyPoints
                defaultPointsAssigned == ~stored.some \/ stored.v = 0
            IN  [key |-> k,
                 issueType |-> tr[k].issuetype,
                 storyPoints |-> IF defaultPointsAssigned THEN 2 ELSE stored.v,
                 defaultPointsAssigned |-> defaultPointsAssigned,
                 statusChangedDate |-> dateOf[k],
                 currentStatus |-> tr[k].status]
        results == [i \in DOMAIN answered |-> Record(answered[i])]
        stories == SelectSeq(results, LAMBDA r : r.issueType = "Story")
        bugs == SelectSeq(results, LAMBDA r : r.issueType = "Bug")
    IN  {[script |-> "fetchCompletedStoryPoints",
          summary |->
             [totalStoryPoints |-> SumPoints(results),
              issueCount |-> Len(selected),
              issuesWithPoints |->
                  Len(SelectSeq(results, LAMBDA r : ~r.defaultPointsAssigned)),
              issuesWithoutPoints |->
                  Len(SelectSeq(results, LAMBDA r : r.defaultPointsAssigned))
                    + (Len(selected) - Len(answered)),
              breakdown |->
                 [stories |-> [points |-> SumPoints(stories),
                               count |-> Len(stories)],
                  bugs |-> [points |-> SumPoints(bugs), count |-> Len(bugs)]]],
          issues |-> sorted] : sorted \in SortByStatusChangedDate(results)}

\* part_005, fetchAssigneeSprintWorkload: the tracker holds the issues of
\* the assignee that is asked for.
fetchAssigneeSprintWorkload(tr) ==
    LET issues ==
            Search(tr, {k \in DOMAIN tr :
                           /\ tr[k].issuetype \in {"Epic", "Story", "Bug"}
                           /\ ~StatusIn(tr[k], {"Ready for release", "CLOSED",
                                                 "Closed", "Done"})})
        counted ==
            SelectSeq(issues,
                      LAMBDA k : tr[k].issuetype \in {"Epic", "Story", "Bug"})
        Record(k) ==
            LET storyPoints == OrElse(tr[k].storyPoints, 0)
                defaulted == storyPoints = 0
            IN  [key |-> k,
                 issueType |-> tr[k].issuetype,
                 status |-> tr[k].status,
                 storyPoints |-> IF defaulted THEN 2 ELSE storyPoints,
                 defaulted |-> defaulted]
        workloadIssues == [i \in DOMAIN counted |-> Record(counted[i])]
    IN  [script |-> "fetchAssigneeSprintWorkload",
         count |-> Len(workloadIssues),
         points |-> SumPoints(workloadIssues),
         issues |-> workloadIssues]

InitNorm ==
    /\ pc = "tracker"
    /\ tracker \in Trackers
    /\ refs = <<>>
    /\ fetched = <<>>
    /\ report = [script |-> "none"]
    /\ CurveIdle /\ VelIdle /\ HistIdle /\ EnvIdle

GetSprintEstimates ==
    /\ pc = "tracker"
    /\ report' = getSprintEstimates(tracker, failing.details)
    /\ pc' = "reported"
    /\ UNCHANGED <<envVars, tracker, refs, fetched, curveVars, velVars,
                   histVars>>

FetchIssuesInQA ==
    /\ pc = "tracker"
    /\ report' = fetchIssuesInQA(tracker, {})
    /\ pc' = "reported"
    /\ UNCHANGED <<envVars, tracker, refs, fetched, curveVars, velVars,
                   histVars>>

\* The query selects Stories and Bugs by their history ("status changed to
\* ... during ..."), which this family does not hold: any of them may match.
FetchCompletedStoryPoints ==
    /\ pc = "tracker"
    /\ \E keys \in SUBSET {k \in DOMAIN tracker :
                              tracker[k].issuetype \in {"Story", "Bug"}} :
         \E dateOf \in [keys -> StatusChangeDates] :
            report' \in fetchCompletedStoryPoints(
                           tracker,
                           SelectSeq([i \in DOMAIN tracker |-> i],
                                     LAMBDA k : k \in keys),
                           dateOf, failing.details)
    /\ pc' = "reported"
    /\ UNCHANGED <<envVars, tracker, refs, fetched, curveVars, velVars,
                   histVars>>

FetchAssigneeSprintWorkload ==
    /\ pc = "tracker"
    /\ report' = fetchAssigneeSprintWorkload(tracker)
    /\ pc' = "reported"
    /\ UNCHANGED <<envVars, tracker, refs, fetched, curveVars, velVars,
                   histVars>>

\* Runs in which the tracker fails the detail request of some issues.
FailingIssues ==
    [issuetype : {"Story", "Bug", "Epic"},
     storyPoints : {None, Some(MaxPoints)},
     status : {"CLOSED"}]

InitFail ==
    /\ pc = "tracker"
    /\ tracker \in UNION {[1..n -> FailingIssues] : n \in 0..MaxIssues}
    /\ refs = <<>>
    /\ fetched = <<>>
    /\ report = [script |-> "none"]
    /\ config = [JIRA_EMAIL |-> TRUE, JIRA_API_TOKEN |-> TRUE]
    /\ failing \in [search : {FALSE}, details : SUBSET DOMAIN tracker]
    /\ run = [script |-> "none", requests |-> 0, written |-> FALSE,
              exited |-> FALSE, exitCode |-> 0]
    /\ fields = [ok |-> TRUE, list |-> <<>>]
    /\ argv = <<>>
    /\ clock = [today |-> 0, tz |-> "UTC"]
    /\ CurveIdle /\ VelIdle /\ HistIdle

NextFail == GetSprintEstimates \/ FetchCompletedStoryPoints

SpecFail == InitFail /\ [][NextFail]_vars

NextNorm ==
    \/ GetSprintEstimates
    \/ FetchIssuesInQA
    \/ FetchCompletedStoryPoints
    \/ FetchAssigneeSprintWorkload

SpecNorm == InitNorm /\ [][NextNorm]_vars

----------------------------------------------------------------------------
(* Grouping of the sprint's issues: status snapshot, dev/review by assignee *)

\* Status changes made in the tracker while a script fetches issue details.
MaxStatusChanges == 1

BoardStatuses == {"In Dev", "READY FOR REVIEW", "In QA", "CLOSED", "Blocked"}
Assignees == {None, Some("Ann")}

\* The history entry the tracker records for a status change made today.
ChangedToday(status, at) ==
    [created |-> Timestamp(Scenario.today, at), items |-> <<StatusItem(status)>>]

\* The issues of the sprint: an issue that is closed was closed today or
\* on an earlier day (no entry of today).
SprintIssues ==
    {raw \in [issuetype : {"Story", "Epic", "Task"},
              status : BoardStatuses,
              storyPoints : {None, Some(3)},
              assignee : Assignees,
              changelog : {[present |-> TRUE, histories |-> hs] :
                              hs \in {<<>>, <<ChangedToday("CLOSED", 0)>>}}] :
        raw.changelog.histories # <<>> => raw.status = "CLOSED"}
Sprints == UNION {[1..n -> SprintIssues] : n \in 1..MaxIssues}

TARGET_STATUSES == {"In Dev", "In Review", "Ready for Review", "READY FOR REVIEW"}

\* Object.entries(STATUS_CATEGORIES), in insertion order.
STATUS_CATEGORIES ==
    << [category |-> "In Dev", statuses |-> {"In Dev"}],
       [category |-> "In Review",
        statuses |-> {"In Review", "Ready for Review", "READY FOR REVIEW"}],
       [category |-> "In QA", statuses |-> {"In QA"}],
       [category |-> "Completed", statuses |-> {"READY FOR RELEASE", "CLOSED"}] >>

\* generate-dev-review-by-assignee.js, fetchDevReviewIssues: the record
\* built from the details of one issue.
DevReviewRecord(tr, k) ==
    LET storyPoints == OrElse(tr[k].storyPoints, 0)
        defaulted == DefaultsToTwo(tr[k].issuetype, storyPoints)
    IN  [key |-> k,
         issueType |-> tr[k].issuetype,
         status |-> tr[k].status,
         assignee |-> IF tr[k].assignee.some THEN tr[k].assignee.v
                      ELSE "Unassigned",
         storyPoints |-> IF defaulted THEN 2 ELSE storyPoints,
         defaulted |-> defaulted]

\* {count, points, issues} of a sub-bucket.
SubBucket(recs) ==
    [count |-> Len(recs), points |-> SumPoints(recs), issues |-> recs]

groupByAssignee(issues) ==
    LET firstSeen ==
            SelectSeq([i \in DOMAIN issues |-> i],
                      LAMBDA i : \A j \in 1..(i - 1) :
                                    issues[j].assignee # issues[i].assignee)
        Entry(i) ==
            LET mine ==
                    SelectSeq(issues,
                              LAMBDA r : r.assignee = issues[i].assignee)
            IN  [name |-> issues[i].assignee,
                 issues |-> mine,
                 totalPoints |-> SumPoints(mine),
                 inDev |->
                     SubBucket(SelectSeq(mine,
                         LAMBDA r : toLowerCase(r.status) = "in dev")),
                 inReview |->
                     SubBucket(SelectSeq(mine,
                         LAMBDA r : toLowerCase(r.status)
                                       \in {"in review", "ready for review"}))]
        entries == [i \in DOMAIN firstSeen |-> Entry(firstSeen[i])]
    IN  StableSort(entries,
                   [i \in DOMAIN entries |-> 0 - entries[i].totalPoints])

\* main of generate-dev-review-by-assignee.js: the summary by status that
\* is printed and saved next to the assignee buckets.
devReviewSummary(issues) ==
    LET inDevIssues == SelectSeq(issues, LAMBDA i : i.status = "In Dev")
        inReviewIssues ==
            SelectSeq(issues,
                      LAMBDA i : toLowerCase(i.status)
                                    \in {"in review", "ready for review"})
    IN  [totalIssues |-> Len(issues),
         totalPoints |-> SumPoints(issues),
         inDev |-> [issues |-> Len(inDevIssues),
                    points |-> SumPoints(inDevIssues)],
         inReview |-> [issues |-> Len(inReviewIssues),
                       points |-> SumPoints(inReviewIssues)]]

\* part_005: the statuses that count as completed in the allocation report.
ALLOCATION_COMPLETED_STATUSES ==
    {"Ready for release", "CLOSED", "Closed", "Done"}

\* part_005, fetchTotalSprintByTeam, on a tracker without a team field:
\* every issue falls to the team 'Unassigned'.
fetchTotalSprintByTeam(tr) ==
    LET issueRefs ==
            Search(tr, {k \in DOMAIN tr :
                           tr[k].issuetype \in {"Epic", "Story", "Bug"}})
        Record(k) ==
            LET storyPoints == OrElse(tr[k].storyPoints, 0)
            IN  [key |-> k,
                 storyPoints |->
                     IF DefaultsToTwo(tr[k].issuetype, storyPoints)
                     THEN 2 ELSE storyPoints,
                 isCompleted |-> tr[k].status \in ALLOCATION_COMPLETED_STATUSES]
        counted == [i \in DOMAIN issueRefs |-> Record(issueRefs[i])]
        completed == SelectSeq(counted, LAMBDA r : r.isCompleted)
    IN  IF Len(counted) = 0 THEN <<>>
        ELSE << [name |-> "Unassigned",
                 totalIssues |-> Len(counted),
                 totalPoints |-> SumPoints(counted),
                 completedIssues |-> Len(completed),
                 completedPoints |-> SumPoints(completed),
                 assigneeCount |-> 0] >>

\* part_001, fetchSprintIssues: the record built from the details of one
\* issue.
SnapshotRecord(tr, k) ==
    LET storyPoints == OrElse(tr[k].storyPoints, 0)
        defaulted == DefaultsToTwo(tr[k].issuetype, storyPoints)
    IN  [key |-> k,
         status |-> tr[k].status,
         issueType |-> tr[k].issuetype,
         storyPoints |-> IF defaulted THEN 2 ELSE storyPoints,
         defaulted |-> defaulted,
         completedToday |-> wasCompletedToday(tr[k].changelog, Scenario.today)]

categorizeStatus(status) ==
    LET statusLower == toLowerCase(status)
        hits == {c \in DOMAIN STATUS_CATEGORIES :
                    \E st \in STATUS_CATEGORIES[c].statuses :
                       toLowerCase(st) = statusLower}
    IN  IF hits = {} THEN "Other" ELSE STATUS_CATEGORIES[Min(hits)].category

generateStatusSnapshot(issues) ==
    LET included ==
            SelectSeq(issues,
                      LAMBDA r : ~(categorizeStatus(r.status) = "Completed"
                                     /\ ~r.completedToday))
        group(category) ==
            LET members ==
                    SelectSeq(included,
                        LAMBDA r : categorizeStatus(r.status) = category)
            IN  StableSort(members, [i \in DOMAIN members |-> members[i].key])
        counts(category) ==
            [count |-> Len(group(category)),
             points |-> SumPoints(group(category))]
        detail(category) ==
            [i \in DOMAIN group(category) |->
                LET r == group(category)[i]
                IN  [key |-> r.key, status |-> r.status,
                     issueType |-> r.issueType,
                     storyPoints |-> r.storyPoints,
                     defaulted |-> r.defaulted]]
    IN  IF Len(issues) = 0
        THEN [script |-> "generateStatusSnapshot", snapshot |-> FALSE]
        ELSE [script |-> "generateStatusSnapshot",
              snapshot |-> TRUE,
              summary |->
                 [totalIssues |-> Len(included),
                  totalStoryPoints |-> SumPoints(included),
                  byStatus |->
                     [inDev |-> counts("In Dev"),
                      inReview |-> counts("In Review"),
                      inQA |-> counts("In QA"),
                      completed |-> counts("Completed"),
                      other |-> counts("Other")]],
              details |->
                 [inDev |-> detail("In Dev"),
                  inReview |-> detail("In Review"),
                  inQA |-> detail("In QA"),
                  completed |-> detail("Completed"),
                  other |-> detail("Other")]]

InitAgg ==
    /\ pc = "tracker"
    /\ tracker \in Sprints
    /\ refs = <<>>
    /\ fetched = <<>>
    /\ report = [script |-> "none"]
    /\ CurveIdle /\ VelIdle /\ HistIdle /\ EnvIdle

\* fetchDevReviewIssues, step 1: the search.
SearchDevReviewIssues ==
    /\ pc = "tracker"
    /\ refs' = Search(tracker,
                      {k \in DOMAIN tracker :
                          /\ tracker[k].issuetype \in {"Story", "Bug"}
                          /\ StatusIn(tracker[k], TARGET_STATUSES)})
    /\ fetched' = <<>>
    /\ pc' = "devReviewDetails"
    /\ UNCHANGED <<envVars, tracker, report, curveVars, velVars, histVars>>

\* fetchDevReviewIssues, step 2: one pass of the loop over issueRefs.
FetchDevReviewIssue ==
    /\ pc = "devReviewDetails"
    /\ refs # <<>>
    /\ fetched' = Append(fetched, DevReviewRecord(tracker, Head(refs)))
    /\ refs' = Tail(refs)
    /\ UNCHANGED <<envVars, pc, tracker, report, curveVars, velVars, histVars>>

\* main: groupByAssignee(issues) on what fetchDevReviewIssues returned.
GroupByAssignee ==
    /\ pc = "devReviewDetails"
    /\ refs = <<>>
    /\ report' = [script |-> "groupByAssignee",
                  issues |-> fetched,
                  summary |-> devReviewSummary(fetched),
                  assignees |-> groupByAssignee(fetched)]
    /\ pc' = "reported"
    /\ UNCHANGED <<envVars, tracker, refs, fetched, curveVars, velVars,
                   histVars>>

\* part_001 fetchSprintIssues, step 1: the search.
SearchSprintIssues ==
    /\ pc = "tracker"
    /\ refs' = Search(tracker,
                      {k \in DOMAIN tracker :
                          tracker[k].issuetype \in {"Story", "Bug"}})
    /\ fetched' = <<>>
    /\ pc' = "snapshotDetails"
    /\ UNCHANGED <<envVars, tracker, report, curveVars, velVars, histVars>>

\* part_001 fetchSprintIssues, step 2: one pass of the loop over issueRefs.
FetchSprintIssue ==
    /\ pc = "snapshotDetails"
    /\ refs # <<>>
    /\ fetched' = Append(fetched, SnapshotRecord(tracker, Head(refs)))
    /\ refs' = Tail(refs)
    /\ UNCHANGED <<envVars, pc, tracker, report, curveVars, velVars, histVars>>

\* generateStatusSnapshot, after fetchSprintIssues returned.
GenerateStatusSnapshot ==
    /\ pc = "snapshotDetails"
    /\ refs = <<>>
    /\ report' = generateStatusSnapshot(fetched)
    /\ pc' = "reported"
    /\ UNCHANGED <<envVars, tracker, refs, fetched, curveVars, velVars,
                   histVars>>

\* Number of status changes made since the script started.
StatusChanges(tr) ==
    SumInt([k \in DOMAIN tr |->
              Cardinality({i \in DOMAIN tr[k].changelog.histories :
                              tr[k].changelog.histories[i].created.time > 0})])

\* The team moves an issue on the board while the script is fetching.
TrackerStatusChange ==
    /\ pc \in {"devReviewDetails", "snapshotDetails"}
    /\ StatusChanges(tracker) < MaxStatusChanges
    /\ \E k \in DOMAIN tracker, st \in BoardStatuses :
          /\ st # tracker[k].status
          /\ tracker' =
               [tracker EXCEPT
                  ![k].status = st,
                  ![k].changelog.histories =
                      Append(@, ChangedToday(st, 1 + StatusChanges(tracker)))]
    /\ UNCHANGED <<envVars, pc, refs, fetched, report, curveVars, velVars, histVars>>

NextAgg ==
    \/ SearchDevReviewIssues
    \/ FetchDevReviewIssue
    \/ GroupByAssignee
    \/ SearchSprintIssues
    \/ FetchSprintIssue
    \/ GenerateStatusSnapshot
    \/ GetSprintEstimates
    \/ TrackerStatusChange

SpecAgg == InitAgg /\ [][NextAgg]_vars

\* Sprints whose status names come in several spellings.
StatusSpellings ==
    {"In Dev", "IN DEV", "in dev", "In Review", "IN REVIEW",
     "Ready for Review", "READY FOR REVIEW", "In QA", "IN QA",
     "Ready for release", "READY FOR RELEASE", "CLOSED", "Closed", "closed",
     "Blocked"}

SpelledIssues ==
    [issuetype : {"Story"},
     status : StatusSpellings,
     storyPoints : {None, Some(3)},
     assignee : {None},
     changelog : {[present |-> TRUE, histories |-> <<>>]}]

InitStatus ==
    /\ pc = "tracker"
    /\ tracker \in UNION {[1..n -> SpelledIssues] : n \in 1..MaxIssues}
    /\ refs = <<>>
    /\ fetched = <<>>
    /\ report = [script |-> "none"]
    /\ CurveIdle /\ VelIdle /\ HistIdle /\ EnvIdle

\* part_005: the team totals of the allocation report.
FetchTotalSprintByTeam ==
    /\ pc = "tracker"
    /\ report' = [script |-> "fetchTotalSprintByTeam",
                  teams |-> fetchTotalSprintByTeam(tracker)]
    /\ pc' = "reported"
    /\ UNCHANGED <<envVars, tracker, refs, fetched, curveVars, velVars,
                   histVars>>

NextStatus ==
    \/ SearchDevReviewIssues
    \/ FetchDevReviewIssue
    \/ GroupByAssignee
    \/ SearchSprintIssues
    \/ FetchSprintIssue
    \/ GenerateStatusSnapshot
    \/ FetchTotalSprintByTeam

SpecStatus == InitStatus /\ [][NextStatus]_vars

----------------------------------------------------------------------------
(* The scripts as processes: credentials, requests, report file, exit code *)

MaxRunIssues == 1

Scripts ==
    {"generate-sprint-estimates", "get-jira-completed-points",
     "burndown-scope"}

\* An issue of the sprint with what analyzeSprintAddition finds for it (the
\* day it entered the sprint) and the story points added to it since the
\* sprint started.
RunIssues ==
    [issuetype : {"Story", "Epic"},
     storyPoints : {None, Some(MaxPoints)},
     status : {"In Dev", "CLOSED"},
     addedToSprint : {Scenario.startDate, Scenario.endDate},
     increase : {0, 1}]

Infinity == [nan |-> FALSE, v |-> 0, inf |-> TRUE]
IsFinite(a) == ~a.nan /\ a = Num(a.v)

\* Math.round((n / d) * 100) for n >= 0 and d >= 0.
RoundPercent(n, d) ==
    IF d = 0 THEN (IF n = 0 THEN NaN ELSE Infinity)
    ELSE Num(MathRound(100 * n, d))

\* scopeIncreasePercentage of the burndown summary.
scopeIncreasePercentage(scopeIncrease, initialPoints) ==
    RoundPercent(scopeIncrease, initialPoints)

\* calculateScopeChanges and the summary generateReport saves.
calculateScopeChanges(issues, sprintStart) ==
    LET initialScope ==
            SelectSeq(issues, LAMBDA r : r.addedToSprint <= sprintStart)
        addedScope ==
            SelectSeq(issues, LAMBDA r : ~(r.addedToSprint <= sprintStart))
        increasedPoints == SumInt([i \in DOMAIN issues |-> issues[i].increase])
        completedIssues ==
            SelectSeq(issues, LAMBDA r : r.status = "READY FOR RELEASE"
                                           \/ r.status = "CLOSED")
        remainingIssues ==
            SelectSeq(issues, LAMBDA r : r.status # "READY FOR RELEASE"
                                           /\ r.status # "CLOSED")
        initialPoints == SumPoints(initialScope)
        addedPoints == SumPoints(addedScope)
    IN  [script |-> "burndown-scope",
         summary |->
            [initialScope |-> initialPoints,
             addedScope |-> addedPoints,
             increasedPoints |-> increasedPoints,
             totalScope |-> initialPoints + addedPoints + increasedPoints,
             completed |-> SumPoints(completedIssues),
             remaining |-> SumPoints(remainingIssues),
             scopeIncreasePercentage |->
                 scopeIncreasePercentage(addedPoints + increasedPoints,
                                         initialPoints)],
         addedIssues |-> addedScope,
         remainingIssues |-> remainingIssues]

\* The burndown & scope script: getSprintDetails, fetchSprintIssues,
\* calculateScopeChanges.  `rejected`: the tracker fails the searches;
\* `failed`: the keys whose detail request fails.  Gives the requests sent,
\* whether the report file is written, and the report.
burndownScope(tr, rejected, failed) ==
    LET found == IF rejected THEN <<>> ELSE Search(tr, DOMAIN tr)
        sprintKnown == Len(found) > 0 /\ found[1] \notin failed
        issueRefs ==
            IF sprintKnown
            THEN Search(tr, {k \in DOMAIN tr :
                               tr[k].issuetype \in {"Story", "Bug"}})
            ELSE <<>>
        answered == SelectSeq(issueRefs, LAMBDA k : k \notin failed)
        Record(k) ==
            LET storyPoints == OrElse(tr[k].storyPoints, 0)
            IN  [key |-> k,
                 issueType |-> tr[k].issuetype,
                 status |-> tr[k].status,
                 storyPoints |->
                     IF DefaultsToTwo(tr[k].issuetype, storyPoints)
                     THEN 2 ELSE storyPoints,
                 addedToSprint |-> tr[k].addedToSprint,
                 increase |-> tr[k].increase]
        issues == [i \in DOMAIN answered |-> Record(answered[i])]
    IN  [requests |-> 1 + (IF Len(found) > 0 THEN 1 ELSE 0)
                        + (IF sprintKnown THEN 1 + Len(issueRefs) ELSE 0),
         written |-> Len(issues) > 0,
         report |-> IF Len(issues) > 0
                    THEN calculateScopeChanges(issues, Scenario.startDate)
                    ELSE [script |-> "none"]]

\* The object getSprintEstimates returns from its outer catch.
getSprintEstimatesError ==
    [script |-> "getSprintEstimates",
     totalStoryPoints |-> 0,
     issueCount |-> 0,
     issuesWithPoints |-> 0,
     issuesWithoutPoints |-> 0,
     breakdown |-> <<>>,
     issues |-> <<>>,
     error |-> TRUE]

\* Command-line arguments, as their characters.
Digits == <<"0", "1", "2", "3", "4", "5", "6", "7", "8", "9">>
IsDigit(c) == \E n \in DOMAIN Digits : Digits[n] = c
DigitValue(c) == (CHOOSE n \in DOMAIN Digits : Digits[n] = c) - 1

\* /^\d{4}-\d{2}-\d{2}$/.test(s)
dateRegex(s) ==
    /\ Len(s) = 10
    /\ \A i \in {1, 2, 3, 4, 6, 7, 9, 10} : IsDigit(s[i])
    /\ s[5] = "-" /\ s[8] = "-"

YearOf(s) ==
    1000 * DigitValue(s[1]) + 100 * DigitValue(s[2])
        + 10 * DigitValue(s[3]) + DigitValue(s[4])
MonthOf(s) == 10 * DigitValue(s[6]) + DigitValue(s[7])
DayOf(s) == 10 * DigitValue(s[9]) + DigitValue(s[10])

IsLeapYear(y) == (y % 4 = 0 /\ y % 100 # 0) \/ y % 400 = 0
DaysInMonth(y, m) ==
    CASE m = 2 -> IF IsLeapYear(y) THEN 29 ELSE 28
      [] m \in {4, 6, 9, 11} -> 30
      [] OTHER -> 31
\* The day number of year-month-day; a day past the month's end runs on
\* into the next month.
MakeDay(y, m, d) ==
    365 * y + ((y - 1) \div 4) - ((y - 1) \div 100) + ((y - 1) \div 400)
        + SumInt([k \in 1..(m - 1) |-> DaysInMonth(y, k)]) + d

\* new Date(s) for a string that passed dateRegex: the time value, in days.
\* A month outside 1..12 or a day outside 1..31 gives Invalid Date (NaN); a
\* day of 29..31 that the month does not have gives Invalid Date or runs on
\* into the next month, depending on the engine.
NewDate(s) ==
    LET y == YearOf(s)
        mo == MonthOf(s)
        d == DayOf(s)
    IN  IF mo \notin 1..12 \/ d \notin 1..31 THEN {NaN}
        ELSE IF d <= DaysInMonth(y, mo) THEN {Num(MakeDay(y, mo, d))}
        ELSE {NaN, Num(MakeDay(y, mo, d))}

\* a > b on two Date objects: false when either is Invalid Date.
DateAfter(a, b) == IsNum(a) /\ IsNum(b) /\ a.v > b.v

ArgStrings ==
    { <<"2", "0", "2", "5", "-", "0", "1", "-", "0", "1">>,
      <<"2", "0", "2", "5", "-", "0", "1", "-", "3", "1">>,
      <<"2", "0", "2", "5", "-", "0", "2", "-", "3", "0">>,
      <<"2", "0", "2", "5", "-", "1", "3", "-", "0", "1">>,
      <<"3", "1", "/", "0", "1", "/", "2", "0", "2", "5">>,
      <<"2", "0", "2", "5", "-", "1", "-", "5">> }
MaxArgs == 3
ArgLists == UNION {[1..n -> ArgStrings] : n \in 0..MaxArgs}
\* npm run jira-points -- 2025-01-01 2025-01-31
ExampleArgs ==
    << <<"2", "0", "2", "5", "-", "0", "1", "-", "0", "1">>,
       <<"2", "0", "2", "5", "-", "0", "1", "-", "3", "1">> >>

InitRun ==
    /\ pc = "main"
    /\ tracker \in UNION {[1..n -> RunIssues] : n \in 0..MaxRunIssues}
    /\ refs = <<>>
    /\ fetched = <<>>
    /\ report = [script |-> "none"]
    /\ config \in [JIRA_EMAIL : BOOLEAN, JIRA_API_TOKEN : BOOLEAN]
    /\ failing \in [search : BOOLEAN, details : SUBSET DOMAIN tracker]
    /\ \E script \in Scripts :
          run = [script |-> script, requests |-> 0, written |-> FALSE,
                 exited |-> FALSE, exitCode |-> 0]
    /\ fields = [ok |-> TRUE, list |-> <<>>]
    /\ argv = IF run.script = "get-jira-completed-points"
              THEN ExampleArgs ELSE <<>>
    /\ clock = [today |-> 0, tz |-> "UTC"]
    /\ CurveIdle /\ VelIdle /\ HistIdle

\* validateConfig, first thing in the main of the scripts that have it:
\* process.exit(1) when the email or the token is not set.
validateConfig ==
    /\ pc = "main"
    /\ run.script \in {"generate-sprint-estimates", "get-jira-completed-points"}
    /\ IF config.JIRA_EMAIL /\ config.JIRA_API_TOKEN
       THEN pc' = "validated" /\ run' = run
       ELSE pc' = "exited"
            /\ run' = [run EXCEPT !.exited = TRUE, !.exitCode = 1]
    /\ UNCHANGED <<config, failing, fields, argv, clock, reportVars, curveVars,
                   velVars, histVars>>

\* get-jira-completed-points.js, parseArgs, called by main after
\* validateConfig: process.exit(1) on fewer than two arguments, on an
\* argument that fails dateRegex, and when the start date is after the end.
parseArgs ==
    /\ pc = "validated"
    /\ run.script = "get-jira-completed-points"
    /\ IF Len(argv) < 2 \/ ~dateRegex(argv[1]) \/ ~dateRegex(argv[2])
       THEN pc' = "exited"
            /\ run' = [run EXCEPT !.exited = TRUE, !.exitCode = 1]
       ELSE \E startDate \in NewDate(argv[1]), endDate \in NewDate(argv[2]) :
               IF DateAfter(startDate, endDate)
               THEN pc' = "exited"
                    /\ run' = [run EXCEPT !.exited = TRUE, !.exitCode = 1]
               ELSE pc' = "parsed" /\ run' = run
    /\ UNCHANGED <<config, failing, fields, argv, clock, reportVars, curveVars,
                   velVars, histVars>>

\* generate-sprint-estimates.js, main after validateConfig, for one sprint:
\* the field discovery, the search, one detail request per issue found;
\* getSprintEstimates catches a failed search and returns an empty estimate,
\* which main saves like any other.
SprintEstimatesMain ==
    /\ pc = "validated"
    /\ run.script = "generate-sprint-estimates"
    /\ LET estimate == IF failing.search THEN getSprintEstimatesError
                       ELSE getSprintEstimates(tracker, failing.details)
       IN  report' = [script |-> "generate-sprint-estimates",
                      summary |-> [totalStoryPoints |-> estimate.totalStoryPoints,
                                   sprintCount |-> 1],
                      sprints |-> <<estimate>>]
    /\ run' = [run EXCEPT
                 !.requests = 2 + (IF failing.search THEN 0 ELSE Len(tracker)),
                 !.written = TRUE, !.exited = TRUE, !.exitCode = 0]
    /\ pc' = "exited"
    /\ UNCHANGED <<config, failing, fields, argv, clock, tracker, refs, fetched,
                   curveVars, velVars, histVars>>

\* get-jira-completed-points.js, main after validateConfig and parseArgs:
\* fetchCompletedStoryPoints rethrows a failed search and main exits with 1.
CompletedPointsMain ==
    /\ pc = "parsed"
    /\ run.script = "get-jira-completed-points"
    /\ IF failing.search
       THEN /\ report' = report
            /\ run' = [run EXCEPT !.requests = 2, !.exited = TRUE,
                                  !.exitCode = 1]
       ELSE \E keys \in SUBSET {k \in DOMAIN tracker :
                                   tracker[k].issuetype \in {"Story", "Bug"}} :
              \E dateOf \in [keys -> StatusChangeDates] :
                 /\ report' \in fetchCompletedStoryPoints(
                                  tracker,
                                  SelectSeq([i \in DOMAIN tracker |-> i],
                                            LAMBDA k : k \in keys),
                                  dateOf, failing.details)
                 /\ run' = [run EXCEPT !.requests = 2 + Cardinality(keys),
                                       !.written = TRUE, !.exited = TRUE,
                                       !.exitCode = 0]
    /\ pc' = "exited"
    /\ UNCHANGED <<config, failing, fields, argv, clock, tracker, refs, fetched,
                   curveVars, velVars, histVars>>

\* The burndown & scope script: the client is created at load time from
\* whatever the environment holds and generateReport starts at once.
BurndownScopeReport ==
    /\ pc = "main"
    /\ run.script = "burndown-scope"
    /\ LET done == burndownScope(tracker, failing.search, failing.details)
       IN  /\ report' = done.report
           /\ run' = [run EXCEPT !.requests = done.requests,
                                 !.written = done.written,
                                 !.exited = TRUE, !.exitCode = 0]
    /\ pc' = "exited"
    /\ UNCHANGED <<config, failing, fields, argv, clock, tracker, refs, fetched,
                   curveVars, velVars, histVars>>

NextRun ==
    \/ validateConfig
    \/ parseArgs
    \/ SprintEstimatesMain
    \/ CompletedPointsMain
    \/ BurndownScopeReport

SpecRun == InitRun /\ [][NextRun]_vars

\* get-jira-completed-points.js started with any command line.
InitArgs ==
    /\ pc = "main"
    /\ tracker \in {<<>>,
                    <<[issuetype |-> "Story", storyPoints |-> Some(MaxPoints),
                       status |-> "CLOSED",
                       addedToSprint |-> Scenario.startDate, increase |-> 0]>>}
    /\ refs = <<>>
    /\ fetched = <<>>
    /\ report = [script |-> "none"]
    /\ config \in {[JIRA_EMAIL |-> TRUE, JIRA_API_TOKEN |-> t] : t \in BOOLEAN}
    /\ failing \in [search : BOOLEAN, details : {{}}]
    /\ run = [script |-> "get-jira-completed-points", requests |-> 0,
              written |-> FALSE, exited |-> FALSE, exitCode |-> 0]
    /\ fields = [ok |-> TRUE, list |-> <<>>]
    /\ argv \in ArgLists
    /\ clock = [today |-> 0, tz |-> "UTC"]
    /\ CurveIdle /\ VelIdle /\ HistIdle

NextArgs == validateConfig \/ parseArgs \/ CompletedPointsMain

SpecArgs == InitArgs /\ [][NextArgs]_vars

----------------------------------------------------------------------------
(* Discovery of the story-point field *)

MaxFields == 2

FieldNames == {"Story Points", "Story point estimate", "story points", "Summary"}
FieldIds == {"customfield_10003", "customfield_10016", "customfield_10020"}

\* What GET /rest/api/3/field gives: a failure, or a list of fields (a
\* field's key equals its id).
FieldAnswers ==
    [ok : BOOLEAN,
     list : UNION {[1..n -> [name : FieldNames, id : FieldIds]] :
                      n \in 0..MaxFields}]

DiscoveryScripts ==
    {"generate-sprint-estimates", "get-jira-completed-points",
     "sprint-progress-daily"}

\* The identifier each getStoryPointsFieldId falls back to.
FallbackFieldId(script) ==
    IF script = "get-jira-completed-points" THEN "customfield_10016"
    ELSE "customfield_10003"

\* getStoryPointsFieldId of generate-sprint-estimates.js and of
\* get-jira-completed-points.js: the first field whose lower-cased name
\* includes 'story point', else the script's default; the default also
\* when the request fails.
getStoryPointsFieldId(answer, fallback) ==
    LET hits == {i \in DOMAIN answer.list :
                    includes(toLowerCase(answer.list[i].name), "story point")}
    IN  IF answer.ok /\ hits # {} THEN answer.list[Min(hits)].id
        ELSE fallback

\* discoverStoryPointsField of the daily progress script: the key of the
\* first field with one of two exact names or the key customfield_10003;
\* it throws when there is none or when the request fails.
discoverStoryPointsField(answer) ==
    LET hits == {i \in DOMAIN answer.list :
                    \/ answer.list[i].name = "Story Points"
                    \/ answer.list[i].name = "Story point estimate"
                    \/ answer.list[i].id = "customfield_10003"}
    IN  IF answer.ok /\ hits # {} THEN Some(answer.list[Min(hits)].id)
        ELSE None

InitField ==
    /\ pc = "fieldDiscovery"
    /\ fields \in FieldAnswers
    /\ \E script \in DiscoveryScripts :
          run = [script |-> script, requests |-> 0, written |-> FALSE,
                 exited |-> FALSE, exitCode |-> 0]
    /\ config = [JIRA_EMAIL |-> TRUE, JIRA_API_TOKEN |-> TRUE]
    /\ failing = [search |-> FALSE, details |-> {}]
    /\ argv = <<>>
    /\ clock = [today |-> 0, tz |-> "UTC"]
    /\ ReportIdle /\ CurveIdle /\ VelIdle /\ HistIdle

GetStoryPointsFieldId ==
    /\ pc = "fieldDiscovery"
    /\ run.script \in {"generate-sprint-estimates", "get-jira-completed-points"}
    /\ report' = [script |-> run.script,
                  storyPointsFieldId |->
                      getStoryPointsFieldId(fields,
                                            FallbackFieldId(run.script))]
    /\ run' = [run EXCEPT !.requests = 1]
    /\ pc' = "search"
    /\ UNCHANGED <<config, failing, fields, argv, clock, tracker, refs, fetched,
                   curveVars, velVars, histVars>>

\* main of the daily progress script catches what discoverStoryPointsField
\* throws and exits with 1.
DiscoverStoryPointsField ==
    /\ pc = "fieldDiscovery"
    /\ run.script = "sprint-progress-daily"
    /\ LET found == discoverStoryPointsField(fields)
       IN  IF found.some
           THEN /\ report' = [script |-> run.script,
                              storyPointsFieldId |-> found.v]
                /\ run' = [run EXCEPT !.requests = 1]
                /\ pc' = "search"
           ELSE /\ report' = report
                /\ run' = [run EXCEPT !.requests = 1, !.exited = TRUE,
                                      !.exitCode = 1]
                /\ pc' = "exited"
    /\ UNCHANGED <<config, failing, fields, argv, clock, tracker, refs, fetched,
                   curveVars, velVars, histVars>>

NextField == GetStoryPointsFieldId \/ DiscoverStoryPointsField

SpecField == InitField /\ [][NextField]_vars

----------------------------------------------------------------------------
(* generate-issues-currently-in-qa.js: the issues-in-QA report and the     *)
(* daily sprint progress                                                   *)

MaxDailyIssues == 2

\* The time zone of the process (TZ).  An instant is a number of hours
\* since 00:00 UTC of date 0; a zone is UtcOffsetBefore hours east of UTC
\* until its daylight-saving change at 02:00 local time of date 1, and
\* UtcOffsetAfter hours from then on.
TimeZones == {"UTC", "America/New_York", "Europe/London"}
UtcOffsetBefore(tz) ==
    CASE tz = "America/New_York" -> 0 - 5
      [] tz = "Europe/London" -> 1
      [] OTHER -> 0
UtcOffsetAfter(tz) ==
    CASE tz = "America/New_York" -> 0 - 4
      [] tz = "Europe/London" -> 0
      [] OTHER -> 0
Transition(tz) == 24 + 2 - UtcOffsetBefore(tz)
UtcOffsetAt(tz, t) ==
    IF t < Transition(tz) THEN UtcOffsetBefore(tz) ELSE UtcOffsetAfter(tz)

\* new Date('YYYY-MM-DD'): a date-only string is 00:00 UTC of that date.
ParseDate(date) == 24 * date
\* date.toISOString().split('T')[0]: the UTC date of the instant.
ToISODate(t) == t \div 24
\* current.setDate(current.getDate() + 1): the same local wall-clock time
\* on the next local day.
SetNextDate(t, tz) ==
    LET wall == t + UtcOffsetAt(tz, t) + 24
        u == wall - UtcOffsetBefore(tz)
    IN  IF u < Transition(tz) THEN u ELSE wall - UtcOffsetAfter(tz)

RECURSIVE DateRangeFrom(_, _, _)
\* while (current <= end) { dates.push(...); current.setDate(...) }
DateRangeFrom(current, end, tz) ==
    IF current > end THEN <<>>
    ELSE <<ToISODate(current)>> \o DateRangeFrom(SetNextDate(current, tz), end, tz)

getDateRange(startDate, endDate, tz) ==
    DateRangeFrom(ParseDate(startDate), ParseDate(endDate), tz)

\* issue.fields[storyPointsField] || 2
DailyPoints(iss) == OrElse(iss.storyPoints, 2)

\* The issues (keys) calculateDailyProgress puts under `date`.
CompletedOn(tr, keys, date, sprintStartDate) ==
    SelectSeq(keys, LAMBDA k : /\ getCompletionDate(tr[k]) = Some(date)
                               /\ date >= sprintStartDate)

PointsOf(tr, keys) == SumInt([i \in DOMAIN keys |-> DailyPoints(tr[keys[i]])])

\* percentComplete: ((cumulative / total) * 100).toFixed(1), in tenths.
PercentComplete(cumulative, total) ==
    IF total = 0 THEN NaN ELSE Num(MathRound(1000 * cumulative, total))

\* calculateDailyProgress on the issues tr[keys[1]], tr[keys[2]], ...
calculateDailyProgress(tr, keys, sprintStartDate, today, tz) ==
    LET endDate == IF today >= sprintStartDate THEN today ELSE sprintStartDate
        dates == getDateRange(sprintStartDate, endDate, tz)
        total == PointsOf(tr, keys)
        pointsCompletedToday ==
            [i \in DOMAIN dates |->
                PointsOf(tr, CompletedOn(tr, keys, dates[i], sprintStartDate))]
        cumulativePoints ==
            [i \in DOMAIN dates |->
                SumInt([j \in 1..i |-> pointsCompletedToday[j]])]
    IN  [i \in DOMAIN dates |->
            [date |-> dates[i],
             totalSprint |-> total,
             completedToday |-> pointsCompletedToday[i],
             cumulativeCompleted |-> cumulativePoints[i],
             remaining |-> total - cumulativePoints[i],
             percentComplete |-> PercentComplete(cumulativePoints[i], total),
             completedIssues |->
                 CompletedOn(tr, keys, dates[i], sprintStartDate)]]

\* The sprint as the issues' sprint field (customfield_11150) holds it.
DailySprints == {[name |-> SPRINT_NAME, startDate |-> s] : s \in {None, Some(0)}}

\* The changelog of a sprint issue: no entry, or one move to Closed.
DailyChangelogs ==
    {[present |-> TRUE, histories |-> <<>>]}
    \cup {[present |-> TRUE,
           histories |-> <<[created |-> Timestamp(d, 1),
                            items |-> <<StatusItem("Closed")>>]>>] : d \in Dates}

DailyIssues(sprint) ==
    [issuetype : {"Story", "Epic"},
     storyPoints : {None, Some(MaxPoints)},
     status : {"In QA", "Closed"},
     updated : {Some(Timestamp(2, 1))},
     changelog : DailyChangelogs,
     sprint : {sprint}]

DailyScripts == {"issues-in-qa", "sprint-progress-daily"}

InitDaily ==
    /\ pc = "main"
    /\ \E sprint \in DailySprints :
          tracker \in UNION {[1..n -> DailyIssues(sprint)] : n \in 0..MaxDailyIssues}
    /\ refs = <<>>
    /\ fetched = <<>>
    /\ report = [script |-> "none"]
    /\ config \in {[JIRA_EMAIL |-> TRUE, JIRA_API_TOKEN |-> t] : t \in BOOLEAN}
    /\ failing \in [search : BOOLEAN, details : SUBSET (DOMAIN tracker \cap {1})]
    /\ \E script \in DailyScripts :
          run = [script |-> script, requests |-> 0, written |-> FALSE,
                 exited |-> FALSE, exitCode |-> 0]
    /\ fields \in {[ok |-> FALSE, list |-> <<>>],
                   [ok |-> TRUE,
                    list |-> <<[name |-> "Story Points",
                                id |-> "customfield_10016"]>>]}
    /\ argv = <<>>
    /\ clock \in [today : {2}, tz : TimeZones]
    /\ CurveIdle /\ VelIdle /\ HistIdle

\* process.exit(1) from main's catch block, after `sent` requests.
ExitWithError(sent) ==
    /\ report' = report
    /\ run' = [run EXCEPT !.requests = sent, !.exited = TRUE, !.exitCode = 1]

\* The issues-in-QA script: validateConfig, getCustomFieldIds (which falls
\* back on a failed field list), fetchIssuesInQA, and the report file.
IssuesInQAMain ==
    /\ pc = "main"
    /\ run.script = "issues-in-qa"
    /\ IF ~(config.JIRA_EMAIL /\ config.JIRA_API_TOKEN) THEN ExitWithError(0)
       ELSE IF failing.search THEN ExitWithError(2)
       ELSE LET qaData == fetchIssuesInQA(tracker, failing.details)
                found == Search(tracker,
                                {k \in DOMAIN tracker :
                                    /\ StatusIn(tracker[k], {QA_STATUS})
                                    /\ tracker[k].issuetype \in {"Story", "Bug"}})
            IN  /\ report' = [script |-> "issues-in-qa",
                              date |-> clock.today,
                              summary |-> [totalIssues |-> qaData.totalIssues,
                                           totalStoryPoints |-> qaData.totalPoints,
                                           breakdown |-> qaData.breakdown],
                              issues |-> qaData.issues]
                /\ run' = [run EXCEPT !.requests = 2 + Len(found),
                                      !.written = TRUE, !.exited = TRUE,
                                      !.exitCode = 0]
    /\ pc' = "exited"
    /\ UNCHANGED <<config, failing, fields, argv, clock, tracker, refs, fetched,
                   curveVars, velVars, histVars>>

\* The daily sprint progress script: the credentials check at load time,
\* then main: discoverStoryPointsField, getSprintDetails (which throws when
\* the sprint's search finds nothing), getSprintIssues, calculateDailyProgress
\* and the report file; every throw ends in process.exit(1).
SprintProgressDailyMain ==
    /\ pc = "main"
    /\ run.script = "sprint-progress-daily"
    /\ IF ~(config.JIRA_EMAIL /\ config.JIRA_API_TOKEN) THEN ExitWithError(0)
       ELSE IF ~discoverStoryPointsField(fields).some THEN ExitWithError(1)
       ELSE IF failing.search \/ tracker = <<>> THEN ExitWithError(2)
       ELSE IF 1 \in failing.details \/ ~tracker[1].sprint.startDate.some
            THEN ExitWithError(3)
       ELSE LET sprint == tracker[1].sprint
                found == Search(tracker,
                                {k \in DOMAIN tracker :
                                    tracker[k].issuetype \in {"Story", "Bug"}})
                issues == SelectSeq(found, LAMBDA k : k \notin failing.details)
                dailyProgress ==
                    calculateDailyProgress(tracker, issues, sprint.startDate.v,
                                           clock.today, clock.tz)
                lastDay == dailyProgress[Len(dailyProgress)]
            IN  /\ report' = [script |-> "sprint-progress-daily",
                              date |-> clock.today,
                              sprintStartDate |-> sprint.startDate.v,
                              issues |-> issues,
                              totalSprintPoints |-> lastDay.totalSprint,
                              totalCompleted |-> lastDay.cumulativeCompleted,
                              totalRemaining |-> lastDay.remaining,
                              dailyProgress |-> dailyProgress]
                /\ run' = [run EXCEPT !.requests = 4 + Len(found),
                                      !.written = TRUE, !.exited = TRUE,
                                      !.exitCode = 0]
    /\ pc' = "exited"
    /\ UNCHANGED <<config, failing, fields, argv, clock, tracker, refs, fetched,
                   curveVars, velVars, histVars>>

NextDaily == IssuesInQAMain \/ SprintProgressDailyMain

SpecDaily == InitDaily /\ [][NextDaily]_vars

----------------------------------------------------------------------------
(* part_003: the upload of UAT defects as bugs *)

MaxRows == 3
MaxRuns == 2

\* The `Defect Name` column of a CSV row (the parser trims the values).
DefectNames == {"", "Login fails", "Login fails on retry", "Test example: login"}
DefectRows == UNION {[1..n -> DefectNames] : n \in 0..MaxRows}

\* The bugs of the project, by summary.
Bug(summary) == [issuetype |-> "Bug", summary |-> summary]
ExistingBugs == {<<>>, <<Bug("Login fails")>>, <<Bug("Login fails on retry")>>}

\* checkIfExists: the key (position) of the first bug the text search
\* `summary ~ "<name>"` returns, null when it returns none and when the
\* request fails (`rejected`).
checkIfExists(tr, defectName, rejected) ==
    LET found == Search(tr, {k \in DOMAIN tr :
                                includes(tr[k].summary, defectName)})
    IN  IF rejected \/ found = <<>> THEN None ELSE Some(found[1])

\* defectName.toUpperCase().includes('TEST EXAMPLE')
IsTestExample(defectName) == includes(toUpperCase(defectName), "TEST EXAMPLE")

\* The counters and lists of processDefects before the first row.
NoDefectsProcessed ==
    [script |-> "upload-defects", created |-> 0, skipped |-> 0, errors |-> 0,
     results |-> [created |-> <<>>, skipped |-> <<>>, errors |-> <<>>]]

\* `fetched` holds the rows of the CSV file, `refs` the rows processDefects
\* has still to go through, `failing.details` the rows (by position) whose
\* create request the tracker rejects.
InitUpload ==
    /\ pc = "main"
    /\ tracker \in ExistingBugs
    /\ fetched \in DefectRows
    /\ refs = <<>>
    /\ report = [script |-> "none"]
    /\ config \in {[JIRA_EMAIL |-> TRUE, JIRA_API_TOKEN |-> t] : t \in BOOLEAN}
    /\ failing \in [search : BOOLEAN, details : SUBSET DOMAIN fetched]
    /\ run = [script |-> "upload-defects", requests |-> 0, written |-> FALSE,
              exited |-> FALSE, exitCode |-> 0, runs |-> 1]
    /\ fields = [ok |-> TRUE, list |-> <<>>]
    /\ argv = <<>>
    /\ clock = [today |-> 0, tz |-> "UTC"]
    /\ CurveIdle /\ VelIdle /\ HistIdle

\* main up to the call of processDefects: validateConfig, the five
\* requests of discoverRequiredFields, readCSV.
UploadMain ==
    /\ pc = "main"
    /\ run.script = "upload-defects"
    /\ IF config.JIRA_EMAIL /\ config.JIRA_API_TOKEN
       THEN /\ pc' = "processDefects"
            /\ refs' = fetched
            /\ report' = NoDefectsProcessed
            /\ run' = [run EXCEPT !.requests = 5]
       ELSE /\ pc' = "exited"
            /\ refs' = refs
            /\ report' = report
            /\ run' = [run EXCEPT !.exited = TRUE, !.exitCode = 1]
    /\ UNCHANGED <<config, failing, fields, argv, clock, tracker, fetched,
                   curveVars, velVars, histVars>>

\* One turn of the loop of processDefects, on the next row of the CSV.
ProcessDefect ==
    /\ pc = "processDefects"
    /\ refs # <<>>
    /\ LET defectName == Head(refs)
           row == Len(fetched) - Len(refs) + 1
           existingKey == checkIfExists(tracker, defectName, failing.search)
       IN  IF defectName = ""
           THEN UNCHANGED <<tracker, report, run>>
           ELSE IF IsTestExample(defectName)
           THEN /\ report' =
                     [report EXCEPT
                        !.skipped = @ + 1,
                        !.results.skipped =
                            Append(@, [name |-> defectName,
                                       reason |-> "Test example"])]
                /\ UNCHANGED <<tracker, run>>
           ELSE IF existingKey.some
           THEN /\ report' =
                     [report EXCEPT
                        !.skipped = @ + 1,
                        !.results.skipped =
                            Append(@, [name |-> defectName,
                                       reason |-> "Already exists"])]
                /\ run' = [run EXCEPT !.requests = @ + 1]
                /\ tracker' = tracker
           ELSE IF row \in failing.details
           THEN /\ report' =
                     [report EXCEPT
                        !.errors = @ + 1,
                        !.results.errors = Append(@, [name |-> defectName])]
                /\ run' = [run EXCEPT !.requests = @ + 3]
                /\ tracker' = tracker
           ELSE /\ tracker' = Append(tracker, Bug(defectName))
                /\ report' =
                     [report EXCEPT
                        !.created = @ + 1,
                        !.results.created =
                            Append(@, [name |-> defectName,
                                       key |-> Len(tracker) + 1])]
                /\ run' = [run EXCEPT !.requests = @ + 3]
    /\ refs' = Tail(refs)
    /\ pc' = pc
    /\ UNCHANGED <<config, failing, fields, argv, clock, fetched, curveVars,
                   velVars, histVars>>

\* processDefects returns; main prints the summary and the process ends.
UploadDone ==
    /\ pc = "processDefects"
    /\ refs = <<>>
    /\ pc' = "exited"
    /\ run' = [run EXCEPT !.exited = TRUE, !.exitCode = 0]
    /\ UNCHANGED <<config, failing, fields, argv, clock, reportVars, curveVars,
                   velVars, histVars>>

\* The script is started again on the same CSV file; the tracker keeps the
\* bugs it has, and may fail other requests than in the run before.
UploadAgain ==
    /\ pc = "exited"
    /\ run.exitCode = 0
    /\ run.runs < MaxRuns
    /\ pc' = "main"
    /\ run' = [run EXCEPT !.requests = 0, !.exited = FALSE,
                          !.runs = @ + 1]
    /\ failing' \in [search : BOOLEAN, details : SUBSET DOMAIN fetched]
    /\ UNCHANGED <<config, fields, argv, clock, reportVars, curveVars,
                   velVars, histVars>>

NextUpload == UploadMain \/ ProcessDefect \/ UploadDone \/ UploadAgain

SpecUpload == InitUpload /\ [][NextUpload]_vars

----------------------------------------------------------------------------
(* generate-sprint-report.js: the Work Done Today report *)

DEV_STATUS == "In Dev"

\* The issues of the project.  An issue that changed status today has the
\* entry of that change and was updated today; the others were last
\* updated today or on the day before.
WorkIssues ==
    {raw \in [issuetype : {"Story", "Task"},
              storyPoints : {None, Some(3)},
              status : {"CLOSED", QA_STATUS, DEV_STATUS},
              updated : {Timestamp(Scenario.today - 1, 0),
                         Timestamp(Scenario.today, 0)},
              changelog : {[present |-> TRUE, histories |-> hs] :
                              hs \in {<<>>} \cup
                                     {<<ChangedToday(st, 0)>> :
                                         st \in {"CLOSED", QA_STATUS,
                                                 DEV_STATUS}}}] :
        raw.changelog.histories # <<>> =>
            /\ raw.changelog.histories[1].items[1].toString = raw.status
            /\ raw.updated = Timestamp(Scenario.today, 0)}

\* fetchIssuesByStatus: the search `status in (...) AND updated >= today`,
\* then the details of each issue found.  `rejected`: the search fails
\* (the catch returns an empty result); `failed`: the keys whose detail
\* request fails (skipped with a warning).
fetchIssuesByStatus(tr, statusList, today, rejected, failed) ==
    LET issueData ==
            IF rejected THEN <<>>
            ELSE Search(tr, {k \in DOMAIN tr :
                               /\ StatusIn(tr[k], statusList)
                               /\ DateOf(tr[k].updated) >= today})
        moved ==
            SelectSeq(issueData,
                      LAMBDA k :
                         /\ k \notin failed
                         /\ tr[k].issuetype \in {"Epic", "Story", "Bug"}
                         /\ changedToStatusToday(tr[k], statusList, today).some)
        Record(k) ==
            LET storyPoints == OrElse(tr[k].storyPoints, 0)
                defaulted == DefaultsToTwo(tr[k].issuetype, storyPoints)
            IN  [key |-> k,
                 issueType |-> tr[k].issuetype,
                 status |-> tr[k].status,
                 storyPoints |-> IF defaulted THEN 2 ELSE storyPoints,
                 defaulted |-> defaulted]
        movedTodayIssues == [i \in DOMAIN moved |-> Record(moved[i])]
    IN  [issues |-> movedTodayIssues,
         totalStoryPoints |-> SumPoints(movedTodayIssues),
         typeBreakdown |-> TypeBreakdown(movedTodayIssues)]

\* generateWorkDoneReport: what it returns for the three results.
workDoneReport(completed, movedToQA, movedToDev) ==
    [script |-> "work-done-today",
     summary |->
        [totalIssues |-> Len(completed.issues) + Len(movedToQA.issues)
                            + Len(movedToDev.issues),
         totalStoryPoints |-> completed.totalStoryPoints
                                 + movedToQA.totalStoryPoints
                                 + movedToDev.totalStoryPoints,
         completedIssues |-> Len(completed.issues),
         completedStoryPoints |-> completed.totalStoryPoints,
         movedToQAIssues |-> Len(movedToQA.issues),
         movedToQAStoryPoints |-> movedToQA.totalStoryPoints,
         movedToDevIssues |-> Len(movedToDev.issues),
         movedToDevStoryPoints |-> movedToDev.totalStoryPoints],
     completed |-> completed.issues,
     movedToQA |-> movedToQA.issues,
     movedToDev |-> movedToDev.issues]

InitWork ==
    /\ pc = "completed"
    /\ tracker \in UNION {[1..n -> WorkIssues] : n \in 1..MaxIssues}
    /\ refs = <<>>
    /\ fetched = <<>>
    /\ report = [script |-> "none"]
    /\ config = [JIRA_EMAIL |-> TRUE, JIRA_API_TOKEN |-> TRUE]
    /\ failing \in [search : BOOLEAN, details : {{}}]
    /\ run = [script |-> "none", requests |-> 0, written |-> FALSE,
              exited |-> FALSE, exitCode |-> 0]
    /\ fields = [ok |-> TRUE, list |-> <<>>]
    /\ argv = <<>>
    /\ clock = [today |-> Scenario.today, tz |-> "UTC"]
    /\ CurveIdle /\ VelIdle /\ HistIdle

\* The first query: the issues completed today.
FetchCompleted ==
    /\ pc = "completed"
    /\ fetched' = <<fetchIssuesByStatus(tracker, COMPLETED_STATUSES,
                                        clock.today, failing.search,
                                        failing.details)>>
    /\ pc' = "movedToQA"
    /\ UNCHANGED <<envVars, tracker, refs, report, curveVars, velVars,
                   histVars>>

\* The second query: the issues moved to QA today.
FetchMovedToQA ==
    /\ pc = "movedToQA"
    /\ fetched' = Append(fetched,
                         fetchIssuesByStatus(tracker, {QA_STATUS}, clock.today,
                                             failing.search, failing.details))
    /\ pc' = "movedToDev"
    /\ UNCHANGED <<envVars, tracker, refs, report, curveVars, velVars,
                   histVars>>

\* The third query, the issues moved to Dev today, and the totals.
FetchMovedToDev ==
    /\ pc = "movedToDev"
    /\ LET movedToDev ==
               fetchIssuesByStatus(tracker, {DEV_STATUS}, clock.today,
                                   failing.search, failing.details)
       IN  /\ fetched' = Append(fetched, movedToDev)
           /\ report' = workDoneReport(fetched[1], fetched[2], movedToDev)
    /\ pc' = "reported"
    /\ UNCHANGED <<envVars, tracker, refs, curveVars, velVars, histVars>>

\* The team moves an issue on the board between two queries.
WorkStatusChange ==
    /\ pc \in {"movedToQA", "movedToDev"}
    /\ StatusChanges(tracker) < MaxStatusChanges
    /\ \E k \in DOMAIN tracker, st \in {"CLOSED", QA_STATUS, DEV_STATUS} :
          /\ st # tracker[k].status
          /\ tracker' =
               [tracker EXCEPT
                  ![k].status = st,
                  ![k].updated = Timestamp(Scenario.today,
                                           1 + StatusChanges(tracker)),
                  ![k].changelog.histories =
                      Append(@, ChangedToday(st, 1 + StatusChanges(tracker)))]
    /\ UNCHANGED <<envVars, pc, refs, fetched, report, curveVars, velVars,
                   histVars>>

NextWork ==
    \/ FetchCompleted
    \/ FetchMovedToQA
    \/ FetchMovedToDev
    \/ WorkStatusChange

SpecWork == InitWork /\ [][NextWork]_vars

----------------------------------------------------------------------------
(* generate-time-in-status.js: the stale issues *)

MaxStaleEntries == 3
MaxStaleIssues == 2

STALE_THRESHOLD_HOURS == 24
\* The COMPLETED_STATUSES of generate-time-in-status.js.
STALE_COMPLETED_STATUSES == {"Ready for release", "CLOSED", "Closed", "Done"}

\* new Date(timestamp): the instant, in hours.
Hours(ts) == 24 * ts.date + ts.time

\* `now` of fetchStaleIssues.
StaleNow == Timestamp(2, 1)

\* The entries of an issue's changelog (response.data.values): a status
\* change 49 hours, 24 hours or 1 hour before `now`, or a change of
\* another field.
StaleEntries ==
    {[created |-> Timestamp(0, 0), items |-> <<StatusItem("In Dev")>>],
     [created |-> Timestamp(1, 1),
      items |-> <<FieldItem("assignee", "assignee", "Ann"),
                  StatusItem("In QA")>>],
     [created |-> Timestamp(2, 0), items |-> <<StatusItem("In QA")>>],
     [created |-> Timestamp(2, 0),
      items |-> <<FieldItem("assignee", "assignee", "Ann")>>]}

\* Changelogs of up to n entries, in any order.
StaleChangelogs(n) == UNION {[1..m -> StaleEntries] : m \in 0..n}

\* items.find(item => item.field === 'status')
HasStatusItem(historyItem) ==
    \E k \in DOMAIN historyItem.items : historyItem.items[k].field = "status"

\* The date of the first entry with a status item.
firstStatusChangeTime(changelog, failed) ==
    LET idx == {i \in DOMAIN changelog : HasStatusItem(changelog[i])}
    IN  IF failed \/ idx = {} THEN None
        ELSE Some(changelog[FirstHit(idx)].created)

RECURSIVE LastStatusChangeScan(_, _)
\* for (const historyItem of changelog): keep the greatest date so far.
LastStatusChangeScan(changelog, lastStatusChange) ==
    IF changelog = <<>> THEN lastStatusChange
    ELSE LET historyItem == Head(changelog)
             changeDate == historyItem.created
         IN  LastStatusChangeScan(
                 Tail(changelog),
                 IF /\ HasStatusItem(historyItem)
                    /\ \/ ~lastStatusChange.some
                       \/ Hours(changeDate) > Hours(lastStatusChange.v)
                 THEN Some(changeDate) ELSE lastStatusChange)

\* getLastStatusChangeTime: null when the changelog request fails.
getLastStatusChangeTime(changelog, failed) ==
    IF failed THEN None ELSE LastStatusChangeScan(changelog, None)

\* (b.hoursInStatus || 0) - (a.hoursInStatus || 0)
HoursOrZero(rec) == IF rec.hoursInStatus.some THEN rec.hoursInStatus.v ELSE 0

\* fetchStaleIssues: the search for the active issues, then the details
\* and the changelog of each.  `failed`: keys whose detail request fails;
\* `noChangelog`: keys whose changelog request fails.
fetchStaleIssues(tr, now, failed, noChangelog) ==
    LET issueRefs ==
            Search(tr, {k \in DOMAIN tr :
                           /\ tr[k].issuetype \in {"Story", "Bug"}
                           /\ ~StatusIn(tr[k], STALE_COMPLETED_STATUSES)})
        answered == SelectSeq(issueRefs, LAMBDA k : k \notin failed)
        Record(k) ==
            LET storyPoints == OrElse(tr[k].storyPoints, 0)
                lastStatusChange ==
                    getLastStatusChangeTime(tr[k].changelog, k \in noChangelog)
                hoursInStatus ==
                    IF lastStatusChange.some
                    THEN Some(Hours(now) - Hours(lastStatusChange.v))
                    ELSE None
            IN  [key |-> k,
                 issueType |-> tr[k].issuetype,
                 status |-> tr[k].status,
                 storyPoints |->
                     IF DefaultsToTwo(tr[k].issuetype, storyPoints)
                     THEN 2 ELSE storyPoints,
                 lastStatusChange |-> lastStatusChange,
                 hoursInStatus |-> hoursInStatus,
                 isStale |-> IF hoursInStatus.some
                             THEN hoursInStatus.v > STALE_THRESHOLD_HOURS
                             ELSE TRUE]
        issues == [i \in DOMAIN answered |-> Record(answered[i])]
        stale == SelectSeq(issues, LAMBDA r : r.isStale)
        staleIssues ==
            StableSort(stale, [i \in DOMAIN stale |-> 0 - HoursOrZero(stale[i])])
    IN  [script |-> "fetchStaleIssues",
         issues |-> staleIssues,
         allIssues |-> issues,
         totalIssues |-> Len(issues),
         staleIssues |-> Len(staleIssues)]

\* The issues of the sprint, each with a changelog of at most one entry.
StaleIssues ==
    [issuetype : {"Story"},
     storyPoints : {None},
     status : {"In QA", "CLOSED"},
     changelog : StaleChangelogs(1)]

\* Either one changelog for getLastStatusChangeTime, or a sprint for
\* fetchStaleIssues.
InitStale ==
    /\ \/ /\ pc = "changelog"
          /\ issue \in [changelog : StaleChangelogs(MaxStaleEntries),
                        changelogFails : BOOLEAN]
          /\ tracker = <<>>
          /\ failing = [search |-> FALSE, details |-> {}, changelogs |-> {}]
       \/ /\ pc = "tracker"
          /\ issue = [key |-> "none"]
          /\ tracker \in UNION {[1..n -> StaleIssues] : n \in 0..MaxStaleIssues}
          /\ failing \in [search : {FALSE},
                          details : SUBSET (DOMAIN tracker \cap {1}),
                          changelogs : SUBSET DOMAIN tracker]
    /\ result = [fn |-> "none"]
    /\ refs = <<>>
    /\ fetched = <<>>
    /\ report = [script |-> "none"]
    /\ config = [JIRA_EMAIL |-> TRUE, JIRA_API_TOKEN |-> TRUE]
    /\ run = [script |-> "none", requests |-> 0, written |-> FALSE,
              exited |-> FALSE, exitCode |-> 0]
    /\ fields = [ok |-> TRUE, list |-> <<>>]
    /\ argv = <<>>
    /\ clock = [today |-> DateOf(StaleNow), tz |-> "UTC", now |-> StaleNow]
    /\ CurveIdle /\ VelIdle

GetLastStatusChangeTime ==
    /\ pc = "changelog"
    /\ result' = [fn |-> "getLastStatusChangeTime",
                  value |-> getLastStatusChangeTime(issue.changelog,
                                                    issue.changelogFails)]
    /\ pc' = "changelogDone"
    /\ UNCHANGED <<envVars, issue, curveVars, velVars, reportVars>>

FetchStaleIssues ==
    /\ pc = "tracker"
    /\ report' = fetchStaleIssues(tracker, clock.now, failing.details,
                                  failing.changelogs)
    /\ pc' = "reported"
    /\ UNCHANGED <<envVars, tracker, refs, fetched, curveVars, velVars,
                   histVars>>

NextStale == GetLastStatusChangeTime \/ FetchStaleIssues

SpecStale == InitStale /\ [][NextStale]_vars

----------------------------------------------------------------------------
(* Claims about the S-curve and the velocity metrics *)

PrecomputedDays == 5..10

\* C8: for every totalPoints and every working-day count N >= 2 the
\* returned daily values sum exactly to totalPoints (the residual having
\* been added to the middle day).  N < 2 is left to C9.
C8_SumIsTotal ==
    (pc = "curve_done" /\ workingDays >= 2)
        => SumNum(distribution) = Num(totalPoints)

\* The shares of `prof` are numbers and sum to 1.
SharesSumToOne(prof) ==
    /\ \A i \in DOMAIN prof : ~prof[i].nan
    /\ \E d \in {prof[i].den : i \in DOMAIN prof} :
          /\ \A i \in DOMAIN prof : prof[i].den = d
          /\ SumInt([i \in DOMAIN prof |-> prof[i].num]) = d

\* share[i] = f(i/(N-1)) / sum(f) with f(t) = t*t*(3-2t), cross-multiplied
\* by (N-1)^3: share[i] * sum(g) = g(i), g(i) = i*i*(3(N-1) - 2i).
IsSmoothstep(prof, n) ==
    LET g(i) == i * i * (3 * (n - 1) - 2 * i)
        G == SumInt([i \in 1..n |-> g(i - 1)])
    IN  /\ Len(prof) = n
        /\ \A i \in 1..n :
              ~prof[i].nan /\ prof[i].num * G = g(i - 1) * prof[i].den

\* C9: for every N >= 1 outside the precomputed set, N = 1 included, the
\* profile used is the smoothstep profile, its N shares are numbers that
\* sum to 1, and each day's target is totalPoints * share[i] (to the cent,
\* the middle day carrying the rounding residual).
C9_GeneratedProfile ==
    (pc = "curve_done" /\ workingDays >= 1
                      /\ workingDays \notin PrecomputedDays)
        => /\ IsSmoothstep(profile, workingDays)
           /\ SharesSumToOne(profile)
           /\ Len(distribution) = workingDays
           /\ \A i \in 1..workingDays :
                 i # (workingDays \div 2) + 1
                    => /\ IsNum(distribution[i])
                       /\ 2 * Abs(distribution[i].v * profile[i].den
                                  - totalPoints * profile[i].num)
                             <= profile[i].den

\* C10 as stated: predictedTotal is the velocity totalDelivered /
\* workingDaysElapsed (0 when no day has elapsed) times totalWorkingDays,
\* rounded to the nearest whole point:
\* predictedTotal = round(totalDelivered / workingDaysElapsed * totalWorkingDays).
C10_ExactPrediction ==
    pc = "sheet_done"
        => IF data.workingDaysElapsed = 0
           THEN data.currentVelocity = 0 /\ data.predictedTotal = 0
           ELSE data.predictedTotal
                    = MathRound(data.totalDelivered * data.totalWorkingDays,
                                data.workingDaysElapsed)

\* C10 amended: currentVelocity is totalDelivered / workingDaysElapsed
\* rounded to the nearest tenth (0 when no day has elapsed), and
\* predictedTotal is that rounded velocity times totalWorkingDays rounded
\* to the nearest whole point; so predictedTotal is within
\* 0.5 + totalWorkingDays / 20 of totalDelivered / elapsed * totalWorkingDays.
C10_RoundedVelocity ==
    pc = "sheet_done"
        => LET d == data.totalDelivered
               e == data.workingDaysElapsed
               t == data.totalWorkingDays
               v == data.currentVelocity
               p == data.predictedTotal
           IN  IF e = 0 THEN v = 0 /\ p = 0
               ELSE /\ 2 * (v * e - 10 * d) <= e
                    /\ 2 * (10 * d - v * e) < e
                    /\ 2 * (10 * p - v * t) <= 10
                    /\ 2 * (v * t - 10 * p) < 10
                    /\ 20 * Abs(p * e - d * t) <= (10 + t) * e

\* C10 witness: a velocity that is not a whole number of tenths was rounded
\* and the prediction made from it differs from the unrounded one.
C10_Witness ==
    /\ pc = "sheet_done"
    /\ data.workingDaysElapsed > 0
    /\ data.currentVelocity * data.workingDaysElapsed # 10 * data.totalDelivered
    /\ data.predictedTotal
          # MathRound(data.totalDelivered * data.totalWorkingDays,
                      data.workingDaysElapsed)

----------------------------------------------------------------------------
(* Claims about the changelog resolvers *)

\* The history entry records a transition into one of `targets`: it has a
\* change item of the field "status" whose new value is one of the names,
\* ignoring case.
TransitionInto(h, targets) ==
    \E k \in DOMAIN h.items :
       /\ h.items[k].field = "status"
       /\ \E s \in targets : toUpperCase(h.items[k].toString) = toUpperCase(s)

InDateRange(h) ==
    /\ DateOf(h.created) >= Scenario.startDate
    /\ DateOf(h.created) <= Scenario.endDate

AddsSprint(h) ==
    \E k \in DOMAIN h.items :
       /\ h.items[k].field = "Sprint"
       /\ includes(h.items[k].toString, SPRINT_NAME)

IssueHistories == IF issue.changelog.present THEN issue.changelog.histories ELSE <<>>

\* The earliest and the latest of a set of entries of the issue's history.
Earliest(idx) ==
    CHOOSE i \in idx : \A j \in idx \ {i} :
        Before(IssueHistories[i].created, IssueHistories[j].created)
Latest(idx) ==
    CHOOSE i \in idx : \A j \in idx \ {i} :
        Before(IssueHistories[j].created, IssueHistories[i].created)

\* The entries of the issue's history that qualify for getCompletionDate,
\* getStatusChangeDate, wasCompletedToday and analyzeSprintAddition.
CompletionEntries ==
    {i \in DOMAIN IssueHistories :
        TransitionInto(IssueHistories[i], completedStatuses)}
CompletedInRange ==
    {i \in DOMAIN IssueHistories :
        /\ TransitionInto(IssueHistories[i], COMPLETED_STATUSES)
        /\ InDateRange(IssueHistories[i])}
CompletedToday ==
    {i \in DOMAIN IssueHistories :
        /\ TransitionInto(IssueHistories[i], COMPLETED_STATUSES)
        /\ DateOf(IssueHistories[i].created) = Scenario.today}
SprintEntries == {i \in DOMAIN IssueHistories : AddsSprint(IssueHistories[i])}

\* C5: on a chronological history with two (or more) transitions into a
\* target status at T1 < T2, both within the date constraint,
\* getCompletionDate returns the date of T2, analyzeSprintAddition returns
\* T1, and getStatusChangeDate returns the date of the most recent
\* qualifying transition.
C5_ResolutionPolicies ==
    pc = "resolved" =>
        /\ (result.fn = "getCompletionDate"
                /\ Cardinality(CompletionEntries) >= 2)
             => result.value
                  = Some(DateOf(IssueHistories[Latest(CompletionEntries)].created))
        /\ (result.fn = "analyzeSprintAddition"
                /\ Cardinality(SprintEntries) >= 2)
             => result.value
                  = IssueHistories[Earliest(SprintEntries)].created
        /\ (result.fn = "getStatusChangeDate"
                /\ Cardinality(CompletedInRange) >= 2)
             => result.value
                  = Some(DateOf(IssueHistories[Latest(CompletedInRange)].created))

\* What a resolver returns when it finds nothing: null or false.
NullOrFalse ==
    IF result.fn = "wasCompletedToday" THEN result.value = FALSE
    ELSE ~result.value.some

\* No entry of the history is a transition into a target of the resolver
\* that ran, within that resolver's date constraint.
NoQualifyingEntry ==
    CASE result.fn = "getStatusChangeDate" -> CompletedInRange = {}
      [] result.fn = "changedToStatusToday" ->
            \A i \in DOMAIN IssueHistories :
               ~(/\ TransitionInto(IssueHistories[i], result.targets)
                 /\ DateOf(IssueHistories[i].created) = Scenario.today)
      [] result.fn = "wasCompletedToday" -> CompletedToday = {}
      [] result.fn = "getCompletionDate" -> CompletionEntries = {}
      [] OTHER -> FALSE

StatusResolvers ==
    {"getStatusChangeDate", "changedToStatusToday", "wasCompletedToday",
     "getCompletionDate"}

\* C6 as stated: each of the four resolvers returns null / false when no
\* history entry has a status change item whose new value is, ignoring
\* case, one of the target names (within the date constraint).
C6_NullWithoutMatch ==
    (pc = "resolved" /\ result.fn \in StatusResolvers /\ NoQualifyingEntry)
        => NullOrFalse

CurrentlyCompleted == toUpperCase(issue.status) \in completedStatuses

\* C6 amended: getStatusChangeDate, changedToStatusToday and
\* wasCompletedToday return null / false when no history entry within the
\* date constraint has a status item whose new value is a target name
\* (ignoring case); getCompletionDate does so too unless the changelog is
\* present and the current status is a completed one, and then it returns
\* the last-updated date.
C6_NullWithoutMatchOrFallback ==
    (pc = "resolved" /\ result.fn \in StatusResolvers /\ NoQualifyingEntry)
        => IF result.fn = "getCompletionDate" /\ issue.changelog.present
                /\ CurrentlyCompleted
           THEN result.value = UpdatedDate(issue)
           ELSE NullOrFalse

\* C6 witness: a resolver returned null on a history whose only entries
\* that name a target are of another field or outside the date constraint.
C6_Witness ==
    /\ pc = "resolved"
    /\ result.fn = "getStatusChangeDate"
    /\ NoQualifyingEntry
    /\ NullOrFalse
    /\ \E i \in DOMAIN IssueHistories :
          /\ TransitionInto(IssueHistories[i], COMPLETED_STATUSES)
          /\ ~InDateRange(IssueHistories[i])
    /\ \E i \in DOMAIN IssueHistories :
          /\ InDateRange(IssueHistories[i])
          /\ \E k \in DOMAIN IssueHistories[i].items :
                /\ IssueHistories[i].items[k].field # "status"
                /\ toUpperCase(IssueHistories[i].items[k].toString) = "CLOSED"

\* C7: getCompletionDate gives the last-updated date to an issue whose
\* current status is a completed one and that has no history at all or no
\* qualifying transition; analyzeSprintAddition gives the creation date
\* when there is no changelog or no entry adding the sprint.
C7_Fallbacks ==
    pc = "resolved" =>
        /\ (result.fn = "getCompletionDate" /\ CurrentlyCompleted
                /\ CompletionEntries = {})
             => result.value = UpdatedDate(issue)
        /\ (result.fn = "analyzeSprintAddition" /\ SprintEntries = {})
             => result.value = issue.created

----------------------------------------------------------------------------
(* Claims about the normalisation of story points *)

\* The issue records of the report a fetch function returned.
ReportedIssues == IF pc = "reported" THEN report.issues ELSE <<>>

\* The record carries a default marker and the marker is set.
MarkedDefaulted(rec) ==
    \/ "defaulted" \in DOMAIN rec /\ rec.defaulted
    \/ "defaultPointsAssigned" \in DOMAIN rec /\ rec.defaultPointsAssigned

EstimableType(raw) == raw.issuetype \in {"Story", "Bug"}
NoStoredPoints(raw) == ~raw.storyPoints.some
ZeroOrNoStoredPoints(raw) == ~raw.storyPoints.some \/ raw.storyPoints.v = 0
PositiveStoredPoints(raw) == raw.storyPoints.some /\ raw.storyPoints.v > 0

\* C2: every Story or Bug whose stored points are 0 or absent is reported
\* with 2 points and with its record marked as defaulted, by every script.
C2_DefaultedAndMarked ==
    \A i \in DOMAIN ReportedIssues :
        LET rec == ReportedIssues[i]
            raw == tracker[rec.key]
        IN  (EstimableType(raw) /\ ZeroOrNoStoredPoints(raw))
                => (rec.storyPoints = 2 /\ MarkedDefaulted(rec))

\* C3: an issue of a type other than Story and Bug that has no stored points
\* is reported with 0 points and is not marked as defaulted.
C3_NonEstimableStaysZero ==
    \A i \in DOMAIN ReportedIssues :
        LET rec == ReportedIssues[i]
            raw == tracker[rec.key]
        IN  (~EstimableType(raw) /\ NoStoredPoints(raw))
                => (rec.storyPoints = 0 /\ ~MarkedDefaulted(rec))

\* C4: an issue with a positive stored value is reported with that value
\* and is not marked as defaulted.
C4_PositiveUnchanged ==
    \A i \in DOMAIN ReportedIssues :
        LET rec == ReportedIssues[i]
            raw == tracker[rec.key]
        IN  PositiveStoredPoints(raw)
                => (rec.storyPoints = raw.storyPoints.v /\ ~MarkedDefaulted(rec))

\* C4 witness: a report that holds a Story stored with exactly 2 points, the
\* default value, next to an issue that was defaulted.
C4_Witness ==
    /\ pc = "reported"
    /\ \E i, j \in DOMAIN report.issues :
          /\ tracker[report.issues[i].key].issuetype = "Story"
          /\ tracker[report.issues[i].key].storyPoints = Some(2)
          /\ report.issues[i].storyPoints = 2
          /\ ~MarkedDefaulted(report.issues[i])
          /\ MarkedDefaulted(report.issues[j])

----------------------------------------------------------------------------
(* Claims about the groupings *)

\* Number of the sequences in `buckets` that hold a record with this key.
Holding(buckets, key) ==
    Cardinality({b \in DOMAIN buckets :
                    \E i \in DOMAIN buckets[b] : buckets[b][i].key = key})

\* The snapshot: records not removed by the 'completed today' filter lie in
\* exactly one status category, and the categories' points add up to theirs.
SnapshotPartitions ==
    LET kept == SelectSeq(fetched,
                    LAMBDA r : ~(categorizeStatus(r.status) = "Completed"
                                   /\ ~r.completedToday))
        by == report.summary.byStatus
        d == report.details
    IN  /\ \A i \in DOMAIN kept :
              Holding(<<d.inDev, d.inReview, d.inQA, d.completed, d.other>>,
                      kept[i].key) = 1
        /\ by.inDev.points + by.inReview.points + by.inQA.points
              + by.completed.points + by.other.points = SumPoints(kept)

\* groupByAssignee: every fetched record lies in exactly one assignee
\* bucket and there in exactly one of inDev / inReview; the assignee totals,
\* and the sub-bucket points, add up to the points of the fetched records.
AssigneePartitions ==
    LET as == report.assignees
    IN  /\ \A i \in DOMAIN report.issues :
              /\ Holding([a \in DOMAIN as |-> as[a].issues],
                         report.issues[i].key) = 1
              /\ \A a \in DOMAIN as :
                    (\E j \in DOMAIN as[a].issues :
                        as[a].issues[j].key = report.issues[i].key)
                    => Holding(<<as[a].inDev.issues, as[a].inReview.issues>>,
                               report.issues[i].key) = 1
        /\ SumInt([a \in DOMAIN as |-> as[a].totalPoints])
              = SumPoints(report.issues)
        /\ SumInt([a \in DOMAIN as |->
                      as[a].inDev.points + as[a].inReview.points])
              = SumPoints(report.issues)

\* getSprintEstimates: the issues that pass the Epic/Story/Bug filter are
\* counted once in the bucket of their type, and the buckets' points add up
\* to their normalised points.
EstimatePartitions ==
    LET counted == {k \in DOMAIN tracker :
                       tracker[k].issuetype \in {"Epic", "Story", "Bug"}}
        types == DOMAIN report.breakdown
        typeSeq == SelectSeq(<<"Epic", "Story", "Bug">>, LAMBDA t : t \in types)
    IN  report.issueCount > 0 =>
          /\ \A k \in counted :
                Cardinality({i \in DOMAIN report.issues :
                                report.issues[i].key = k}) = 1
          /\ \A t \in types :
                report.breakdown[t].count
                   = Cardinality({k \in counted : tracker[k].issuetype = t})
          /\ SumInt([i \in DOMAIN typeSeq |-> report.breakdown[typeSeq[i]].points])
                = SumPoints(report.issues)
          /\ report.totalStoryPoints = SumPoints(report.issues)

\* C1: in each grouping every issue that no explicit filter removed lies in
\* exactly one bucket (status category; assignee and its inDev / inReview
\* sub-bucket; issue type), and the buckets' points add up to the
\* normalised points of those issues.
C1_BucketsPartition ==
    pc = "reported" =>
        /\ (report.script = "generateStatusSnapshot" /\ report.snapshot)
              => SnapshotPartitions
        /\ report.script = "groupByAssignee" => AssigneePartitions
        /\ report.script = "getSprintEstimates" => EstimatePartitions

----------------------------------------------------------------------------
(* Claims about the velocity uplift *)

RemainingDays == data.totalWorkingDays - data.workingDaysElapsed
RemainingPoints == data.totalCommitted - data.totalDelivered

\* C11 as stated: the uplift is 0 when remainingDays <= 0 or the velocity
\* totalDelivered / workingDaysElapsed is 0, and otherwise it is exactly
\* ((remainingPoints / remainingDays) / velocity - 1) * 100 for that
\* unrounded velocity.
C11_ExactUplift ==
    pc = "sheet_done" =>
        IF RemainingDays <= 0 \/ data.workingDaysElapsed = 0
              \/ data.totalDelivered = 0
        THEN data.velocityUpliftNeeded = 0
        ELSE data.velocityUpliftNeeded * RemainingDays * data.totalDelivered
               = 100 * (RemainingPoints * data.workingDaysElapsed
                          - RemainingDays * data.totalDelivered)

\* C11 amended: the uplift is 0 when remainingDays <= 0 or the velocity,
\* rounded to one decimal, is 0; otherwise it is a whole number at most 0.5
\* away from ((remainingPoints / remainingDays) / velocity - 1) * 100 for
\* the velocity rounded to one decimal.
C11_RoundedUplift ==
    pc = "sheet_done" =>
        LET v == data.currentVelocity
            u == data.velocityUpliftNeeded
        IN  /\ v = MathRound(10 * data.totalDelivered,
                             IF data.workingDaysElapsed > 0
                             THEN data.workingDaysElapsed ELSE 1)
                   * (IF data.workingDaysElapsed > 0 THEN 1 ELSE 0)
            /\ IF RemainingDays <= 0 \/ v = 0
               THEN u = 0
               ELSE 2 * Abs(u * RemainingDays * v
                              - (1000 * RemainingPoints
                                   - 100 * RemainingDays * v))
                       <= RemainingDays * v

\* C11 witness: days remain, the velocity is positive, and the exact uplift
\* is not a whole number, so that the rounding shows.
C11_Witness ==
    /\ pc = "sheet_done"
    /\ RemainingDays > 0
    /\ data.currentVelocity > 0
    /\ data.velocityUpliftNeeded > 0
    /\ (1000 * RemainingPoints) % (RemainingDays * data.currentVelocity) # 0

----------------------------------------------------------------------------
(* Claims about the overrun projection *)

Projected == pc = "pdf_done" /\ report.script = "generateReport"

\* C12: whenever currentVelocity > 0, daysOverrun is the whole number
\* nearest to totalRemaining / currentVelocity - workingDaysRemaining, the
\* report says exactly one of overrun (daysOverrun > 0), underrun
\* (daysOverrun < 0) and on track (daysOverrun = 0), and isOverrun is true
\* exactly in the first case.
C12_OverrunProjection ==
    (Projected /\ data.currentVelocity > 0) =>
        LET pd == report.projectData
            v == data.currentVelocity
        IN  /\ pd.daysOverrun.some /\ pd.isOverrun.some
            /\ 2 * Abs(pd.daysOverrun.v * v
                         - (10 * pd.totalRemaining
                              - pd.workingDaysRemaining * v)) <= v
            /\ report.overrunText.some
            /\ (report.overrunText.v.text = "OVERRUN") = (pd.daysOverrun.v > 0)
            /\ (report.overrunText.v.text = "UNDERRUN") = (pd.daysOverrun.v < 0)
            /\ (report.overrunText.v.text = "On track") = (pd.daysOverrun.v = 0)
            /\ pd.isOverrun.v = (pd.daysOverrun.v > 0)

\* C12 witness: a project behind schedule at a positive velocity, with
\* working days still remaining.
C12_Witness ==
    /\ Projected
    /\ data.currentVelocity > 0
    /\ report.projectData.workingDaysRemaining > 0
    /\ report.projectData.isOverrun = Some(TRUE)
    /\ report.overrunText = Some([text |-> "OVERRUN", days |-> 2])

\* C13: with currentVelocity = 0 the overrun is left undefined in the
\* report data, no overrun line is drawn (neither 0 nor "on track"), and
\* nothing is divided by zero.
C13_UnknownAtZeroVelocity ==
    (Projected /\ data.currentVelocity = 0) =>
        /\ report.projectData.daysOverrun = None
        /\ report.projectData.isOverrun = None
        /\ report.overrunText = None

\* C13 witness: nothing delivered after some days, points still remaining.
C13_Witness ==
    /\ Projected
    /\ data.currentVelocity = 0
    /\ data.workingDaysElapsed > 0
    /\ report.projectData.totalRemaining > 0
    /\ report.overrunText = None

----------------------------------------------------------------------------
(* Claims about failing requests *)

\* C14: when the detail fetch of an issue fails, the issue enters no issue
\* count and no point total, the other issues are processed in order, and
\* the report's issue count is smaller by the number of failed issues.
C14_FailedIssuesLeftOut ==
    pc = "reported" =>
        /\ report.script = "getSprintEstimates" =>
              /\ report.issueCount
                   = Len(tracker) - Cardinality(failing.details)
              /\ report.totalStoryPoints = SumPoints(report.issues)
              /\ Len(tracker) > 0 =>
                    report.issuesWithPoints + report.issuesWithoutPoints
                       = Len(tracker) - Cardinality(failing.details)
              /\ \A i, j \in DOMAIN report.issues :
                    i < j => report.issues[i].key < report.issues[j].key
        /\ report.script = "fetchCompletedStoryPoints" =>
              /\ report.summary.issueCount = Len(report.issues)
              /\ report.summary.totalStoryPoints = SumPoints(report.issues)
              /\ report.summary.issuesWithPoints
                   + report.summary.issuesWithoutPoints = Len(report.issues)
              /\ \A i \in DOMAIN report.issues :
                    report.issues[i].key \notin failing.details

\* C15: if the initial search of a run fails, the run exits with a non-zero
\* code and writes no report file.
C15_FailedSearchAborts ==
    (run.exited /\ failing.search /\ run.requests > 0) =>
        (run.exitCode # 0 /\ ~run.written)

\* C16: with the account email or the API token absent, the process exits
\* with a non-zero code before any request is sent.
C16_NoRequestWithoutCredentials ==
    (~config.JIRA_EMAIL \/ ~config.JIRA_API_TOKEN) =>
        /\ run.requests = 0
        /\ run.exited => run.exitCode # 0

----------------------------------------------------------------------------
(* Claims about percentages *)

\* C17: every percentage of a report is 0 when its denominator total is
\* zero; no report value is NaN or Infinity.
C17_PercentagesFinite ==
    (run.written /\ report.script = "burndown-scope") =>
        /\ IsFinite(report.summary.scopeIncreasePercentage)
        /\ report.summary.initialScope = 0 =>
              report.summary.scopeIncreasePercentage = Num(0)

----------------------------------------------------------------------------
(* Claims about the order of buckets *)

\* The natural order of the assignee names of the model.
LexicalRank(name) == IF name = "Ann" THEN 1 ELSE 2

BucketSummary(buckets) ==
    [a \in DOMAIN buckets |->
        [name |-> buckets[a].name,
         count |-> Len(buckets[a].issues),
         totalPoints |-> buckets[a].totalPoints,
         inDev |-> buckets[a].inDev.count,
         inReview |-> buckets[a].inReview.count]]

\* C18: the buckets of a report are in descending order of points, and two
\* buckets with equal points are in the lexical order of their keys.
C18_DescendingThenLexical ==
    (pc = "reported" /\ report.script = "groupByAssignee") =>
        \A a, b \in DOMAIN report.assignees :
            a < b =>
               \/ report.assignees[a].totalPoints
                    > report.assignees[b].totalPoints
               \/ /\ report.assignees[a].totalPoints
                       = report.assignees[b].totalPoints
                  /\ LexicalRank(report.assignees[a].name)
                       < LexicalRank(report.assignees[b].name)

\* C19: every ordering of the same fetched issues gives the same aggregate:
\* the same buckets with the same counts and point sums, in the same order.
C19_OrderIndependent ==
    (pc = "reported" /\ report.script = "groupByAssignee") =>
        \A other \in Orders(report.issues) :
            BucketSummary(groupByAssignee(other))
               = BucketSummary(report.assignees)

----------------------------------------------------------------------------
(* Claims about the classification of status names *)

SameIgnoringCase(a, b) == toLowerCase(a) = toLowerCase(b)

CategoryOf(key) ==
    LET d == report.details
        In(list) == \E i \in DOMAIN list : list[i].key = key
    IN  CASE In(d.inDev) -> "In Dev"
          [] In(d.inReview) -> "In Review"
          [] In(d.inQA) -> "In QA"
          [] In(d.completed) -> "Completed"
          [] In(d.other) -> "Other"
          [] OTHER -> "none"

\* C20: a raw status name is put in a category exactly when it equals,
\* ignoring case, one of the category's synonyms; this also holds for the
\* 'completed' test of the team allocation and for the 'In Dev' count of
\* the dev/review summary.
C20_CaseInsensitiveBuckets ==
    pc = "reported" =>
        /\ (report.script = "generateStatusSnapshot" /\ report.snapshot) =>
              \A c \in DOMAIN STATUS_CATEGORIES :
                 \A k \in DOMAIN tracker :
                    CategoryOf(k) \in {"none", STATUS_CATEGORIES[c].category}
                       <=> (\/ CategoryOf(k) = "none"
                            \/ \E st \in STATUS_CATEGORIES[c].statuses :
                                  SameIgnoringCase(tracker[k].status, st))
        /\ report.script = "groupByAssignee" =>
              report.summary.inDev.issues
                 = Len(SelectSeq(report.issues,
                          LAMBDA r : SameIgnoringCase(r.status, "In Dev")))
        /\ (report.script = "fetchTotalSprintByTeam" /\ report.teams # <<>>) =>
              report.teams[1].completedIssues
                 = Cardinality({k \in DOMAIN tracker :
                      \E st \in ALLOCATION_COMPLETED_STATUSES :
                         SameIgnoringCase(tracker[k].status, st)})

----------------------------------------------------------------------------
(* Claims about the discovery of the story-point field *)

NoStoryPointField ==
    \/ ~fields.ok
    \/ \A i \in DOMAIN fields.list :
          ~includes(toLowerCase(fields.list[i].name), "story point")

\* C21: when the story-point field cannot be discovered (no matching field
\* in the list, or the request fails) the run goes on with a fallback
\* identifier, the same documented default in every script.
C21_SameFallbackEverywhere ==
    (pc # "fieldDiscovery" /\ NoStoryPointField) =>
        /\ ~run.exited
        /\ report.storyPointsFieldId = "customfield_10003"

----------------------------------------------------------------------------
(* Claims about an empty sprint and the daily progress *)

\* The credentials are set and the tracker answers every request.
AllRequestsAnswered ==
    /\ config.JIRA_EMAIL /\ config.JIRA_API_TOKEN
    /\ fields.ok
    /\ ~failing.search
    /\ failing.details = {}

\* C22: when the search matches no issue, the fetcher returns an empty
\* collection, raises no error, and the run ends with exit code 0.
C22_EmptySearchEndsNormally ==
    (pc = "exited" /\ AllRequestsAnswered /\ tracker = <<>>) =>
        /\ run.exitCode = 0
        /\ report.issues = <<>>

\* The issues of the report that calculateDailyProgress was given.
DailyCompletedInRange ==
    SelectSeq(report.issues,
              LAMBDA k : /\ getCompletionDate(tracker[k]).some
                         /\ getCompletionDate(tracker[k]).v >= report.sprintStartDate
                         /\ getCompletionDate(tracker[k]).v <= report.date)

\* C29: in the daily progress, cumulativeCompleted never decreases,
\* cumulativeCompleted + remaining is totalSprint on every day, an issue is
\* listed under at most one day, and the last day's cumulativeCompleted is
\* the point sum of the issues completed from sprint start to today, so
\* that remaining is never negative.
C29_DailyProgressAddsUp ==
    (pc = "exited" /\ report.script = "sprint-progress-daily") =>
        LET days == report.dailyProgress
        IN  /\ \A i \in 1..(Len(days) - 1) :
                  days[i].cumulativeCompleted <= days[i + 1].cumulativeCompleted
            /\ \A i \in DOMAIN days :
                  /\ days[i].cumulativeCompleted + days[i].remaining
                        = days[i].totalSprint
                  /\ days[i].remaining >= 0
            /\ \A k \in DOMAIN tracker :
                  Cardinality({i \in DOMAIN days :
                                  \E n \in DOMAIN days[i].completedIssues :
                                     days[i].completedIssues[n] = k}) <= 1
            /\ days[Len(days)].cumulativeCompleted
                  = PointsOf(tracker, DailyCompletedInRange)

----------------------------------------------------------------------------
(* Claims about the command line *)

\* An argument that is a date of the calendar in YYYY-MM-DD format.
IsCalendarDate(s) ==
    /\ dateRegex(s)
    /\ MonthOf(s) \in 1..12
    /\ DayOf(s) \in 1..DaysInMonth(YearOf(s), MonthOf(s))

\* C23: get-jira-completed-points queries the tracker only when its two
\* arguments are dates in YYYY-MM-DD format with start <= end; otherwise
\* it exits with a non-zero code without any search call.
C23_QueriesOnlyWithValidDates ==
    /\ run.requests > 0 =>
          /\ Len(argv) >= 2
          /\ IsCalendarDate(argv[1]) /\ IsCalendarDate(argv[2])
          /\ MakeDay(YearOf(argv[1]), MonthOf(argv[1]), DayOf(argv[1]))
                <= MakeDay(YearOf(argv[2]), MonthOf(argv[2]), DayOf(argv[2]))
    /\ (pc = "exited" /\ run.requests = 0) => run.exitCode # 0

----------------------------------------------------------------------------
(* Claims about the burndown summary *)

\* C24: in the burndown summary the initial and the added scope cover the
\* fetched issues once, as the completed and the remaining issues do, and
\* the total sprint scope (totalCurrentPoints) is completedPoints +
\* remainingPoints, also when story-point increases were recorded.
C24_TotalScopeIsCompletedPlusRemaining ==
    (pc = "exited" /\ report.script = "burndown-scope") =>
        /\ report.summary.initialScope + report.summary.addedScope
              = report.summary.completed + report.summary.remaining
        /\ report.summary.totalScope
              = report.summary.completed + report.summary.remaining

----------------------------------------------------------------------------
(* Claims about the completed-points summary *)

\* C25: in the completed-points report, whatever detail requests fail,
\* issuesWithoutPoints is the number of reported issues defaulted to 2,
\* issuesWithPoints the number of reported issues with stored points,
\* totalStoryPoints the sum of storyPoints over the reported issues, and
\* the Story and Bug points of the breakdown add up to totalStoryPoints.
C25_SummaryCountsReportedIssues ==
    (pc = "reported" /\ report.script = "fetchCompletedStoryPoints") =>
        /\ report.summary.issuesWithoutPoints
              = Len(SelectSeq(report.issues,
                              LAMBDA r : r.defaultPointsAssigned))
        /\ report.summary.issuesWithPoints
              = Len(SelectSeq(report.issues,
                              LAMBDA r : ~r.defaultPointsAssigned))
        /\ report.summary.totalStoryPoints = SumPoints(report.issues)
        /\ report.summary.breakdown.stories.points
              + report.summary.breakdown.bugs.points
              = report.summary.totalStoryPoints

----------------------------------------------------------------------------
(* Claims about the precomputed S-curve profiles *)

\* C26: with a precomputed profile (5..10 working days) every day's target
\* is totalPoints * share[i] rounded to 2 decimals, and the middle day
\* differs from its rounded share by accumulated rounding error only, i.e.
\* by less than N * 0.005 (N / 2 hundredths).
C26_MiddleDayCorrectionIsRounding ==
    (pc = "curve_done" /\ workingDays \in DOMAIN sCurveProfile) =>
        LET mid == (workingDays \div 2) + 1
            share(i) == RoundShare(totalPoints, profile[i])
        IN  /\ Len(distribution) = workingDays
            /\ \A i \in DOMAIN distribution :
                  i # mid => distribution[i] = share(i)
            /\ IsNum(distribution[mid])
            /\ 2 * Abs(distribution[mid].v - share(mid).v) < workingDays

----------------------------------------------------------------------------
(* Claims about the defect upload *)

\* The rows processDefects has gone through that have a defect name.
NamedRowsProcessed ==
    Len(SelectSeq(SubSeq(fetched, 1, Len(fetched) - Len(refs)),
                  LAMBDA name : name # ""))

\* C27: every row with a defect name that processDefects has gone through
\* is in exactly one of created / skipped / errors, a failed creation does
\* not end the loop, and no defect name is created twice, in one run or in
\* repeated runs.
C27_EachRowOnceNoDuplicateBugs ==
    /\ pc = "processDefects" =>
          /\ report.created + report.skipped + report.errors
                = NamedRowsProcessed
          /\ Len(report.results.created) = report.created
          /\ Len(report.results.skipped) = report.skipped
          /\ Len(report.results.errors) = report.errors
    /\ run.script = "upload-defects" =>
          \A i, j \in DOMAIN tracker :
             tracker[i].summary = tracker[j].summary => i = j

----------------------------------------------------------------------------
(* Claims about the Work Done Today report *)

\* The keys of the records of a result list.
KeysOf(recs) == {recs[i].key : i \in DOMAIN recs}

\* C28: whatever status changes the tracker makes between the three
\* queries, no issue is in more than one of the three lists, every listed
\* issue has a status of the query that listed it, and totalIssues and
\* totalStoryPoints count each issue once.
C28_EachIssueInOneList ==
    pc = "reported" =>
        LET listed == KeysOf(report.completed) \cup KeysOf(report.movedToQA)
                         \cup KeysOf(report.movedToDev)
        IN  /\ KeysOf(report.completed) \cap KeysOf(report.movedToQA) = {}
            /\ KeysOf(report.completed) \cap KeysOf(report.movedToDev) = {}
            /\ KeysOf(report.movedToQA) \cap KeysOf(report.movedToDev) = {}
            /\ \A i \in DOMAIN report.completed :
                  StatusIn(report.completed[i], COMPLETED_STATUSES)
            /\ \A i \in DOMAIN report.movedToQA :
                  StatusIn(report.movedToQA[i], {QA_STATUS})
            /\ \A i \in DOMAIN report.movedToDev :
                  StatusIn(report.movedToDev[i], {DEV_STATUS})
            /\ report.summary.totalIssues = Cardinality(listed)

----------------------------------------------------------------------------
(* Claims about the time in status *)

\* The instants (in hours) of the entries of a changelog that hold a
\* status item.
StatusChangeHours(changelog) ==
    {Hours(changelog[i].created) :
        i \in {j \in DOMAIN changelog : HasStatusItem(changelog[j])}}

\* What the claim states for an issue with this changelog: its latest
\* status change, unknown when no entry has a status item or the request
\* failed.
LatestKnown(changelog, failed) ==
    ~failed /\ StatusChangeHours(changelog) # {}

=============================================================================
